---- MODULE Spec2Model ----
(***************************************************************************)
(* AVL tree (src/index.ts, src/utils.ts of the avl package).               *)
(*                                                                         *)
(* The tree is a heap of node objects.  A node object is an identifier of  *)
(* NodeIds; `heap` maps every live identifier to its fields                *)
(* (key, value, left, right, parent, balanceFactor); NIL is `undefined`.   *)
(* Every public method is one action: the whole method body, including     *)
(* the rebalancing walk and the nested calls it makes.                     *)
(***************************************************************************)
EXTENDS Integers, Sequences, FiniteSets, TLC

\* ------------------------------------------------------------------ bounds
MaxKey == 3
MaxNodes == 4
MaxLoad == 3
MaxRotations == 2

\* the keys of a tree of twelve nodes in which the deletion of a leaf shortens
\* two subtrees, one above the other; inserted in this order they need no rotation
DeepKeys == <<5, 2, 8, 1, 3, 7, 10, 4, 6, 9, 11, 12>>

NIL == 0
NodeIds == 1..(MaxNodes + Len(DeepKeys))
Keys == 0..MaxKey
\* the values are opaque to the tree: two distinguishable payloads
Values == {"a", "b"}
NoKey == -1
NoValue == "undefined"

VARIABLES
    heap,          \* the node objects: identifier -> fields
    root,          \* this._root
    size,          \* this._size
    noDuplicates,  \* this._noDuplicates
    op,            \* the last call and what it returned
    hist           \* what the caller has done so far (kept by the scenarios below)

vars == <<heap, root, size, noDuplicates, op, hist>>

\* ------------------------------------------------------------ utils.ts
\* Math.abs
Abs(x) == IF x < 0 THEN -x ELSE x

DEFAULT_COMPARE(a, b) == IF a > b THEN 1 ELSE IF a < b THEN -1 ELSE 0

\* the tree's comparator: the constructor's default
compare(a, b) == DEFAULT_COMPARE(a, b)

\* a fresh object: allocation returns an identifier that is not live
NewId(h) == CHOOSE n \in NodeIds \ DOMAIN h : \A m \in NodeIds \ DOMAIN h : n <= m

\* NewNode with the parent link forgotten
NewNode_noParent(parent, key, value) ==
    [key |-> key, value |-> value, left |-> NIL, right |-> NIL,
     parent |-> NIL, balanceFactor |-> 0]

\* the object literal { parent, left, right, balanceFactor: 0, key, value }
NewNode(parent, key, value) ==
    [key |-> key, value |-> value, left |-> NIL, right |-> NIL,
     parent |-> parent, balanceFactor |-> 0]

\* h with the object n added
Alloc(h, n, rec) == [m \in DOMAIN h \cup {n} |-> IF m = n THEN rec ELSE h[m]]

\* rotateLeftFactors without the correction for a right-heavy promoted node
rotateLeftFactors_noCorrection(nodeBF, rightBF) ==
    LET n2 == nodeBF + 1
        r1 == rightBF + 1
        r2 == IF n2 > 0 THEN r1 + n2 ELSE r1
    IN <<n2, r2>>

\* balance-factor algebra of rotateLeft: <<node.balanceFactor, rightNode.balanceFactor>>
rotateLeftFactors(nodeBF, rightBF) ==
    LET n1 == nodeBF + 1
        n2 == IF rightBF < 0 THEN n1 - rightBF ELSE n1
        r1 == rightBF + 1
        r2 == IF n2 > 0 THEN r1 + n2 ELSE r1
    IN <<n2, r2>>

\* rotateRightFactors without the correction for a left-heavy promoted node
rotateRightFactors_noCorrection(nodeBF, leftBF) ==
    LET n2 == nodeBF - 1
        l1 == leftBF - 1
        l2 == IF n2 < 0 THEN l1 + n2 ELSE l1
    IN <<n2, l2>>

\* balance-factor algebra of rotateRight: <<node.balanceFactor, leftNode.balanceFactor>>
rotateRightFactors(nodeBF, leftBF) ==
    LET n1 == nodeBF - 1
        n2 == IF leftBF > 0 THEN n1 - leftBF ELSE n1
        l1 == leftBF - 1
        l2 == IF n2 < 0 THEN l1 + n2 ELSE l1
    IN <<n2, l2>>

\* rotateLeftInner leaving the inner subtree's parent link on the promoted node
rotateLeftInner_noParent(h, node, inner) == [h EXCEPT ![node].right = inner]

\* rotateLeft: node.right = rightNode.left;
\* if (rightNode.left) rightNode.left.parent = node
rotateLeftInner(h, node, inner) ==
    IF inner # NIL THEN [h EXCEPT ![node].right = inner, ![inner].parent = node]
    ELSE [h EXCEPT ![node].right = inner]

\* rotateLeft: rightNode.parent = node.parent, and that parent's child link
rotateLeftParent(h, node, rightNode, p) ==
    IF p # NIL
    THEN IF h[p].left = node
         THEN [h EXCEPT ![rightNode].parent = p, ![p].left = rightNode]
         ELSE [h EXCEPT ![rightNode].parent = p, ![p].right = rightNode]
    ELSE [h EXCEPT ![rightNode].parent = p]

\* rotateLeft: node.parent = rightNode; rightNode.left = node
rotateLeftLink(h, node, rightNode) ==
    [h EXCEPT ![node].parent = rightNode, ![rightNode].left = node]

\* rotateLeft: the two balance factors, f computed from their values before
rotateLeftBalance(h, node, rightNode, f) ==
    [h EXCEPT ![node].balanceFactor = f[1], ![rightNode].balanceFactor = f[2]]

\* rotateLeft with its right child present
rotateLeftWith(h, node, rightNode) ==
    [heap |->
       rotateLeftBalance(
         rotateLeftLink(
           rotateLeftParent(
             rotateLeftInner(h, node, h[rightNode].left),
             node, rightNode, h[node].parent),
           node, rightNode),
         node, rightNode,
         rotateLeftFactors(h[node].balanceFactor, h[rightNode].balanceFactor)),
     ret |-> rightNode]

\* rotateLeft adjusting node's balance factor before it looks for the right child
rotateLeft_eager(h, node) ==
    IF h[node].right = NIL
    THEN [heap |-> [h EXCEPT ![node].balanceFactor = @ + 1], ret |-> NIL]
    ELSE rotateLeftWith(h, node, h[node].right)

\* rotateLeft(node): [heap, ret] with ret the promoted node, NIL when node.right is absent
rotateLeft(h, node) ==
    IF h[node].right = NIL THEN [heap |-> h, ret |-> NIL]
    ELSE rotateLeftWith(h, node, h[node].right)

\* rotateRight: node.left = leftNode.right; if (node.left) node.left.parent = node
rotateRightInner(h, node, inner) ==
    IF inner # NIL THEN [h EXCEPT ![node].left = inner, ![inner].parent = node]
    ELSE [h EXCEPT ![node].left = inner]

\* rotateRight: leftNode.parent = node.parent, and that parent's child link
rotateRightParent(h, node, leftNode, p) ==
    IF p # NIL
    THEN IF h[p].left = node
         THEN [h EXCEPT ![leftNode].parent = p, ![p].left = leftNode]
         ELSE [h EXCEPT ![leftNode].parent = p, ![p].right = leftNode]
    ELSE [h EXCEPT ![leftNode].parent = p]

\* rotateRight: node.parent = leftNode; leftNode.right = node
rotateRightLink(h, node, leftNode) ==
    [h EXCEPT ![node].parent = leftNode, ![leftNode].right = node]

\* rotateRight: the two balance factors, f computed from their values before
rotateRightBalance(h, node, leftNode, f) ==
    [h EXCEPT ![node].balanceFactor = f[1], ![leftNode].balanceFactor = f[2]]

\* rotateRight with its left child present
rotateRightWith(h, node, leftNode) ==
    [heap |->
       rotateRightBalance(
         rotateRightLink(
           rotateRightParent(
             rotateRightInner(h, node, h[leftNode].right),
             node, leftNode, h[node].parent),
           node, leftNode),
         node, leftNode,
         rotateRightFactors(h[node].balanceFactor, h[leftNode].balanceFactor)),
     ret |-> leftNode]

\* rotateRight(node): [heap, ret] with ret the promoted node, NIL when node.left is absent
rotateRight(h, node) ==
    IF h[node].left = NIL THEN [heap |-> h, ret |-> NIL]
    ELSE rotateRightWith(h, node, h[node].left)

\* the larger of two heights (Math.max)
Max(a, b) == IF a > b THEN a ELSE b

\* height(node): number of nodes on the longest path down from node
RECURSIVE height(_, _)
height(h, node) ==
    IF node = NIL THEN 0
    ELSE 1 + Max(height(h, h[node].left), height(h, h[node].right))

\* isBalanced(root)
RECURSIVE isBalanced(_, _)
isBalanced(h, node) ==
    IF node = NIL THEN TRUE
    ELSE /\ Abs(height(h, h[node].left) - height(h, h[node].right)) <= 1
         /\ isBalanced(h, h[node].left)
         /\ isBalanced(h, h[node].right)

\* ------------------------------------------------------------ index.ts
\* the tree object's fields
Tree(h, rt, sz) == [heap |-> h, root |-> rt, size |-> sz]

\* has(key): descent from the root, true at the first node comparing equal
RECURSIVE hasFrom(_, _, _)
\* hasFrom looking for an equal key only to the left of a larger-or-equal one
hasFrom_leftTies(h, node, key) ==
    IF node = NIL THEN FALSE
    ELSE LET cmp == compare(key, h[node].key) IN
         IF cmp = 0 THEN h[node].left = NIL \/ hasFrom(h, h[node].left, key)
         ELSE IF cmp < 0 THEN hasFrom(h, h[node].left, key)
         ELSE hasFrom(h, h[node].right, key)

hasFrom(h, node, key) ==
    IF node = NIL THEN FALSE
    ELSE LET cmp == compare(key, h[node].key) IN
         IF cmp = 0 THEN TRUE
         ELSE IF cmp < 0 THEN hasFrom(h, h[node].left, key)
         ELSE hasFrom(h, h[node].right, key)

has(T, key) == IF T.root # NIL THEN hasFrom(T.heap, T.root, key) ELSE FALSE

\* get(key): the value of the first node comparing equal, NoValue (undefined) when absent
RECURSIVE getFrom(_, _, _)
\* getFrom descending to the wrong side of a node
getFrom_mirrored(h, node, key) ==
    IF node = NIL THEN NoValue
    ELSE LET cmp == compare(key, h[node].key) IN
         IF cmp = 0 THEN h[node].value
         ELSE IF cmp < 0 THEN getFrom(h, h[node].right, key)
         ELSE getFrom(h, h[node].left, key)

\* get, the descent: the value of the first node comparing equal
getFrom(h, node, key) ==
    IF node = NIL THEN NoValue
    ELSE LET cmp == compare(key, h[node].key) IN
         IF cmp = 0 THEN h[node].value
         ELSE IF cmp < 0 THEN getFrom(h, h[node].left, key)
         ELSE getFrom(h, h[node].right, key)

get(T, key) == getFrom(T.heap, T.root, key)

\* setGoesLeft with the comparison reversed
setGoesLeft_reversed(cmp) == cmp >= 0

\* setGoesLeft sending ties to the right
setGoesLeft_strict(cmp) == cmp < 0

\* set, duplicate-allowed descent: the side taken at a node (ties go left)
setGoesLeft(cmp) == cmp <= 0

\* set, the two descent loops: [parent, cmp, match]; match is the node whose
\* key compared equal in reject-duplicates mode, NIL otherwise
RECURSIVE setDescend(_, _, _, _, _, _)
RECURSIVE setDescendAt(_, _, _, _, _)
setDescend(h, nd, node, parent, cmp, key) ==
    IF node = NIL THEN [parent |-> parent, cmp |-> cmp, match |-> NIL]
    ELSE setDescendAt(h, nd, node, compare(key, h[node].key), key)

\* one round of the loop at node, cmp = compare(key, node.key)
setDescendAt(h, nd, node, cmp, key) ==
    IF nd
    THEN IF cmp = 0 THEN [parent |-> node, cmp |-> cmp, match |-> node]
         ELSE IF cmp < 0 THEN setDescend(h, nd, h[node].left, node, cmp, key)
         ELSE setDescend(h, nd, h[node].right, node, cmp, key)
    ELSE IF setGoesLeft(cmp) THEN setDescend(h, nd, h[node].left, node, cmp, key)
         ELSE setDescend(h, nd, h[node].right, node, cmp, key)

\* tooRightHeavy with the threshold off by one
tooRightHeavy_late(bf) == bf < -2

\* the rebalancing tests of set and delete: parent.balanceFactor < -1, > 1
tooRightHeavy(bf) == bf < -1

tooLeftHeavy(bf) == bf > 1

\* a rotation result with the number of rotate calls that produced it
WithRots(r, n) == [heap |-> r.heap, ret |-> r.ret, rots |-> n]

\* if (parent.right?.balanceFactor === 1) rotateRight(parent.right);
\* newRoot = rotateLeft(parent): [heap, ret, rots]
rebalanceRightHeavy(h, parent) ==
    IF h[parent].right # NIL /\ h[h[parent].right].balanceFactor = 1
    THEN WithRots(rotateLeft(rotateRight(h, h[parent].right).heap, parent), 2)
    ELSE WithRots(rotateLeft(h, parent), 1)

\* if (parent.left?.balanceFactor === -1) rotateLeft(parent.left);
\* newRoot = rotateRight(parent): [heap, ret, rots]
rebalanceLeftHeavy(h, parent) ==
    IF h[parent].left # NIL /\ h[h[parent].left].balanceFactor = -1
    THEN WithRots(rotateRight(rotateLeft(h, h[parent].left).heap, parent), 2)
    ELSE WithRots(rotateRight(h, parent), 1)

\* setBump with the two adjustments exchanged
setBump_reversed(h, parent, key) ==
    [h EXCEPT ![parent].balanceFactor =
        IF compare(h[parent].key, key) < 0 THEN @ + 1 ELSE @ - 1]

\* set: cmp = compare(parent.key, key); parent.balanceFactor -= 1 or += 1
setBump(h, parent, key) ==
    [h EXCEPT ![parent].balanceFactor =
        IF compare(h[parent].key, key) < 0 THEN @ - 1 ELSE @ + 1]

\* setRotated leaving the root reference on the demoted node
setRotated_staleRoot(r, rt, parent) ==
    [heap |-> r.heap, root |-> rt, rots |-> r.rots]

\* set: if (parent === this._root) this._root = newRoot; break
setRotated(r, rt, parent) ==
    [heap |-> r.heap, root |-> IF parent = rt THEN r.ret ELSE rt, rots |-> r.rots]

\* set, the walk back up from the new leaf's parent: [heap, root, rots];
\* rots counts the calls of rotateLeft and rotateRight made
RECURSIVE setWalk(_, _, _, _)
RECURSIVE setWalkAt(_, _, _, _)
setWalk(h, rt, parent, key) ==
    IF parent = NIL THEN [heap |-> h, root |-> rt, rots |-> 0]
    ELSE setWalkAt(setBump(h, parent, key), rt, parent, key)

\* one round of the walk, after parent's balance factor was adjusted
setWalkAt(h, rt, parent, key) ==
    IF h[parent].balanceFactor = 0 THEN [heap |-> h, root |-> rt, rots |-> 0]
    ELSE IF tooRightHeavy(h[parent].balanceFactor)
         THEN setRotated(rebalanceRightHeavy(h, parent), rt, parent)
    ELSE IF tooLeftHeavy(h[parent].balanceFactor)
         THEN setRotated(rebalanceLeftHeavy(h, parent), rt, parent)
    ELSE setWalk(h, rt, h[parent].parent, key)

\* setExisting counting the replaced entry as a new one
setExisting_grows(T, match, value) ==
    Tree([T.heap EXCEPT ![match].value = value], T.root, T.size + 1)

\* set, an existing key in reject-duplicates mode: the value is replaced in place
setExisting(T, match, value) ==
    Tree([T.heap EXCEPT ![match].value = value], T.root, T.size)

\* set on an empty tree: the new node is the root
setRoot(T, n, key, value) ==
    [tree |-> Tree(Alloc(T.heap, n, NewNode(NIL, key, value)), n, T.size + 1),
     rots |-> 0]

\* set: if (cmp <= 0) parent.left = newNode else parent.right = newNode
setLink(h, parent, cmp, newNode) ==
    IF cmp <= 0 THEN [h EXCEPT ![parent].left = newNode]
    ELSE [h EXCEPT ![parent].right = newNode]

\* setDone counting the new entry twice
setDone_twice(T, w) == [tree |-> Tree(w.heap, w.root, T.size + 2), rots |-> w.rots]

\* set: this._size++ after the walk w
setDone(T, w) == [tree |-> Tree(w.heap, w.root, T.size + 1), rots |-> w.rots]

\* set: the new leaf under parent, then the walk
setAttach(T, parent, cmp, newNode, key, value) ==
    setDone(T, setWalk(setLink(Alloc(T.heap, newNode, NewNode(parent, key, value)),
                               parent, cmp, newNode),
                       T.root, parent, key))

\* set after the descent d
setFound(T, d, key, value) ==
    IF d.match # NIL THEN [tree |-> setExisting(T, d.match, value), rots |-> 0]
    ELSE setAttach(T, d.parent, d.cmp, NewId(T.heap), key, value)

\* set: `if (parent == undefined) throw new Error(...)` after the descent
setThrows(T, nd, key) ==
    T.root # NIL /\ setDescend(T.heap, nd, T.root, NIL, 0, key).parent = NIL

\* set(key, value): [tree, rots]
set(T, nd, key, value) ==
    IF T.root = NIL THEN setRoot(T, NewId(T.heap), key, value)
    ELSE setFound(T, setDescend(T.heap, nd, T.root, NIL, 0, key), key, value)

\* delete, the guard `!key`: JavaScript falsiness of a key (0 among the numbers)
Falsy(key) == key = 0

\* delete, the search loop: the first node on the descent comparing equal, or NIL
RECURSIVE deleteFind(_, _, _)
RECURSIVE deleteFindAt(_, _, _, _)
deleteFind(h, node, key) ==
    IF node = NIL THEN NIL
    ELSE deleteFindAt(h, node, key, compare(key, h[node].key))

\* deleteFindAt taking every key not greater than the node's for a match
deleteFindAt_loose(h, node, key, cmp) ==
    IF cmp <= 0 THEN node
    ELSE deleteFind(h, h[node].right, key)

\* one round of the search at node, cmp = compare(key, node.key)
deleteFindAt(h, node, key, cmp) ==
    IF cmp = 0 THEN node
    ELSE IF cmp < 0 THEN deleteFind(h, h[node].left, key)
    ELSE deleteFind(h, h[node].right, key)

\* while (max.right) max = max.right
RECURSIVE rightmost(_, _)
rightmost(h, max) == IF h[max].right # NIL THEN rightmost(h, h[max].right) ELSE max

\* while (min.left) min = min.left
RECURSIVE leftmost(_, _)
leftmost(h, min) == IF h[min].left # NIL THEN leftmost(h, h[min].left) ELSE min

\* node.key = from.key; node.value = from.value
copyUp(h, node, from) ==
    [h EXCEPT ![node].key = h[from].key, ![node].value = h[from].value]

\* delete, copy-up through the left subtree (if (node.left) {...}): [heap, node]
RECURSIVE deleteLeftLoop(_, _, _)
RECURSIVE deleteLeftStep(_, _, _)
deleteLeftLoop(h, node, max) ==
    IF h[max].left # NIL \/ h[max].right # NIL
    THEN deleteLeftStep(h, node, rightmost(h, max))
    ELSE [heap |-> copyUp(h, node, max), node |-> max]

\* the body of the outer while, max already moved to the rightmost node
deleteLeftStep(h, node, max) ==
    IF h[max].left # NIL
    THEN deleteLeftLoop(copyUp(h, node, max), max, h[max].left)
    ELSE deleteLeftLoop(copyUp(h, node, max), node, max)

\* delete, copy-up through the right subtree (if (node.right) {...}): [heap, node]
RECURSIVE deleteRightLoop(_, _, _)
RECURSIVE deleteRightStep(_, _, _)
deleteRightLoop(h, node, min) ==
    IF h[min].left # NIL \/ h[min].right # NIL
    THEN deleteRightStep(h, node, leftmost(h, min))
    ELSE [heap |-> copyUp(h, node, min), node |-> min]

\* the body of the outer while, min already moved to the leftmost node
deleteRightStep(h, node, min) ==
    IF h[min].right # NIL
    THEN deleteRightLoop(copyUp(h, node, min), min, h[min].right)
    ELSE deleteRightLoop(copyUp(h, node, min), node, min)

\* delete: if (parent.left === pp) parent.balanceFactor -= 1 else += 1
deleteBump(h, parent, pp) ==
    [h EXCEPT ![parent].balanceFactor = IF h[parent].left = pp THEN @ - 1 ELSE @ + 1]

\* delete, the walk up from the parent of the node to unlink: [heap, root, rots];
\* rots counts the calls of rotateLeft and rotateRight made
RECURSIVE deleteWalk(_, _, _, _, _)
RECURSIVE deleteWalkAt(_, _, _, _)
RECURSIVE deleteRotated(_, _, _, _)
RECURSIVE deleteWalkNext(_, _, _, _)
deleteWalk(h, rt, parent, pp, rots) ==
    IF parent = NIL THEN [heap |-> h, root |-> rt, rots |-> rots]
    ELSE deleteWalkAt(deleteBump(h, parent, pp), rt, parent, rots)

\* one round of the walk, after parent's balance factor was adjusted
deleteWalkAt(h, rt, parent, rots) ==
    IF tooRightHeavy(h[parent].balanceFactor)
    THEN deleteRotated(rebalanceRightHeavy(h, parent), rt, parent, rots)
    ELSE IF tooLeftHeavy(h[parent].balanceFactor)
    THEN deleteRotated(rebalanceLeftHeavy(h, parent), rt, parent, rots)
    ELSE deleteWalkNext(h, rt, parent, rots)

\* if (parent === this._root) this._root = newRoot; parent = newRoot
deleteRotated(r, rt, parent, rots) ==
    deleteWalkNext(r.heap, IF parent = rt THEN r.ret ELSE rt, r.ret, rots + r.rots)

\* if (parent?.balanceFactor === -1 || parent?.balanceFactor === 1) break;
\* pp = parent; parent = parent?.parent
deleteWalkNext(h, rt, parent, rots) ==
    IF parent # NIL /\ (h[parent].balanceFactor = -1 \/ h[parent].balanceFactor = 1)
    THEN [heap |-> h, root |-> rt, rots |-> rots]
    ELSE deleteWalk(h, rt, IF parent # NIL THEN h[parent].parent ELSE NIL, parent, rots)

\* delete, the unlinking of node from its parent p (delete node.parent.left / .right)
deleteUnlinkFrom(h, node, p) ==
    IF p # NIL
    THEN IF h[p].left = node THEN [h EXCEPT ![p].left = NIL]
         ELSE [h EXCEPT ![p].right = NIL]
    ELSE h

deleteUnlink(h, node) == deleteUnlinkFrom(h, node, h[node].parent)

\* deleteSize with the decrement forgotten
deleteSize_kept(sz) == sz

\* delete, `this._size--`
deleteSize(sz) == sz - 1

\* deleteCopyLeft stopping at the rightmost node of the left subtree, leaf or not
deleteCopyLeft_shallow(h, node) ==
    IF h[node].left # NIL
    THEN [heap |-> copyUp(h, node, rightmost(h, h[node].left)),
          node |-> rightmost(h, h[node].left)]
    ELSE [heap |-> h, node |-> node]

\* delete: the copy-up through the left subtree of the node found: [heap, node]
deleteCopyLeft(h, node) ==
    IF h[node].left # NIL THEN deleteLeftLoop(h, node, h[node].left)
    ELSE [heap |-> h, node |-> node]

\* delete: the copy-up through the right subtree of the node reached: [heap, node]
deleteCopyRight(a) ==
    IF a.heap[a.node].right # NIL
    THEN deleteRightLoop(a.heap, a.node, a.heap[a.node].right)
    ELSE a

\* delete: after the walk w, node is unlinked, the root dropped if node is the root
deleteFinish(T, node, w) ==
    [tree |-> Tree(deleteUnlink(w.heap, node),
                   IF node = w.root THEN NIL ELSE w.root,
                   deleteSize(T.size)),
     ret |-> TRUE, rots |-> w.rots]

\* delete: the walk from the parent of the node b.node to unlink
deleteNode(T, b) ==
    deleteFinish(T, b.node, deleteWalk(b.heap, T.root, b.heap[b.node].parent, b.node, 0))

\* delete after the search
deleteAt(T, found) ==
    IF found = NIL THEN [tree |-> T, ret |-> FALSE, rots |-> 0]
    ELSE deleteNode(T, deleteCopyRight(deleteCopyLeft(T.heap, found)))

\* delete guarded by `!this._root` alone
delete_anyKey(T, key) ==
    IF T.root = NIL THEN [tree |-> T, ret |-> FALSE, rots |-> 0]
    ELSE deleteAt(T, deleteFind(T.heap, T.root, key))

\* delete(key): [tree, ret, rots]
delete(T, key) ==
    IF T.root = NIL \/ Falsy(key) THEN [tree |-> T, ret |-> FALSE, rots |-> 0]
    ELSE deleteAt(T, deleteFind(T.heap, T.root, key))

\* clear dropping the root and keeping the size
clear_rootOnly(T) == Tree(T.heap, NIL, T.size)

\* clear(): `delete this._root; this._size = 0`
clear(T) == Tree(T.heap, NIL, 0)

\* shift/pop: returnValue = { key: node.key, value: node.value } and the tree
\* after this.delete(node.key), d
removed(d, key, value) ==
    [tree |-> d.tree, key |-> key, value |-> value, rots |-> d.rots]

\* shift/pop at the node found
removeAt(T, node) ==
    removed(delete(T, T.heap[node].key), T.heap[node].key, T.heap[node].value)

\* shift(): [tree, key, value, rots]; key and value are those of the leftmost node
shift(T) ==
    IF T.root # NIL THEN removeAt(T, leftmost(T.heap, T.root))
    ELSE [tree |-> T, key |-> NoKey, value |-> NoValue, rots |-> 0]

\* pop(): [tree, key, value, rots]; key and value are those of the rightmost node
pop(T) ==
    IF T.root # NIL THEN removeAt(T, rightmost(T.heap, T.root))
    ELSE [tree |-> T, key |-> NoKey, value |-> NoValue, rots |-> 0]

\* ---- the rounds of the two walks, one record for each pass through the loop
\* body: the ancestor the round is at, its balance factor once adjusted, the
\* rotate calls made (the node passed and the child to promote, NIL when it is
\* absent), the root of the subtree at the end of the round (newRoot after a
\* rotation) and the heap then
RotateCall(fn, h, node) ==
    [fn |-> fn, node |-> node,
     child |-> IF fn = "rotateLeft" THEN h[node].right ELSE h[node].left]

\* the rotate calls of `if (parent.right?.balanceFactor === 1)
\* rotateRight(parent.right); newRoot = rotateLeft(parent)`
rightHeavyCalls(h, parent) ==
    IF h[parent].right # NIL /\ h[h[parent].right].balanceFactor = 1
    THEN <<RotateCall("rotateRight", h, h[parent].right),
           RotateCall("rotateLeft", rotateRight(h, h[parent].right).heap, parent)>>
    ELSE <<RotateCall("rotateLeft", h, parent)>>

\* the rotate calls of `if (parent.left?.balanceFactor === -1)
\* rotateLeft(parent.left); newRoot = rotateRight(parent)`
leftHeavyCalls(h, parent) ==
    IF h[parent].left # NIL /\ h[h[parent].left].balanceFactor = -1
    THEN <<RotateCall("rotateLeft", h, h[parent].left),
           RotateCall("rotateRight", rotateLeft(h, h[parent].left).heap, parent)>>
    ELSE <<RotateCall("rotateRight", h, parent)>>

\* the objects of h listed by identifier (the identifiers in use are 1..Len(h))
Objects(h) == SubSeq(h, 1, Len(h))

\* a round without rotation, and a round whose rotations returned r
Round(h, parent) ==
    [node |-> parent, bf |-> h[parent].balanceFactor, calls |-> <<>>,
     top |-> parent, heap |-> Objects(h)]

RoundRotated(h, parent, calls, r) ==
    [node |-> parent, bf |-> h[parent].balanceFactor, calls |-> calls,
     top |-> r.ret, heap |-> Objects(r.heap)]

\* the mark left in place of a round that the n rounds allowed do not include
Unfinished == [node |-> NIL, bf |-> 0, calls |-> <<>>, top |-> NIL, heap |-> <<>>]

\* setWalkRound moving on after a rotation
RECURSIVE setWalkRounds(_, _, _, _)
setWalkRound_on(h, parent, key, n) ==
    IF h[parent].balanceFactor = 0 THEN <<Round(h, parent)>>
    ELSE IF tooRightHeavy(h[parent].balanceFactor)
         THEN <<RoundRotated(h, parent, rightHeavyCalls(h, parent),
                             rebalanceRightHeavy(h, parent))>>
              \o setWalkRounds(rebalanceRightHeavy(h, parent).heap,
                               h[parent].parent, key, n - 1)
    ELSE IF tooLeftHeavy(h[parent].balanceFactor)
         THEN <<RoundRotated(h, parent, leftHeavyCalls(h, parent),
                             rebalanceLeftHeavy(h, parent))>>
              \o setWalkRounds(rebalanceLeftHeavy(h, parent).heap,
                               h[parent].parent, key, n - 1)
    ELSE <<Round(h, parent)>> \o setWalkRounds(h, h[parent].parent, key, n - 1)

\* set, one round of `while (parent)` after parent's balance factor was adjusted
setWalkRound(h, parent, key, n) ==
    IF h[parent].balanceFactor = 0 THEN <<Round(h, parent)>>
    ELSE IF tooRightHeavy(h[parent].balanceFactor)
         THEN <<RoundRotated(h, parent, rightHeavyCalls(h, parent),
                             rebalanceRightHeavy(h, parent))>>
    ELSE IF tooLeftHeavy(h[parent].balanceFactor)
         THEN <<RoundRotated(h, parent, leftHeavyCalls(h, parent),
                             rebalanceLeftHeavy(h, parent))>>
    ELSE <<Round(h, parent)>> \o setWalkRounds(h, h[parent].parent, key, n - 1)

\* set, the rounds of `while (parent)`, n of them at most
setWalkRounds(h, parent, key, n) ==
    IF parent = NIL THEN <<>>
    ELSE IF n = 0 THEN <<Unfinished>>
    ELSE setWalkRound(setBump(h, parent, key), parent, key, n)

\* set: the rounds of the walk that follows the linking of newNode under d.parent
setRoundsAt(T, d, newNode, key, value, n) ==
    IF d.match # NIL THEN <<>>
    ELSE setWalkRounds(setLink(Alloc(T.heap, newNode, NewNode(d.parent, key, value)),
                               d.parent, d.cmp, newNode),
                       d.parent, key, n)

\* set(key, value): the rounds of its walk, n at most
setRounds(T, nd, key, value, n) ==
    IF T.root = NIL THEN <<>>
    ELSE setRoundsAt(T, setDescend(T.heap, nd, T.root, NIL, 0, key), NewId(T.heap),
                     key, value, n)

\* deleteWalkStops ending the walk at a factor of 0 as well
deleteWalkStops_early(h, parent) ==
    parent # NIL /\ h[parent].balanceFactor \in {-1, 0, 1}

\* delete: the test that ends the walk (parent?.balanceFactor === -1 || === 1)
deleteWalkStops(h, parent) ==
    parent # NIL /\ (h[parent].balanceFactor = -1 \/ h[parent].balanceFactor = 1)

\* delete, the end of a round: break, or pp = parent; parent = parent?.parent
RECURSIVE deleteWalkRounds(_, _, _, _)
deleteWalkOn(round, n) ==
    IF deleteWalkStops(round.heap, round.top) THEN <<round>>
    ELSE <<round>> \o deleteWalkRounds(round.heap,
                                       IF round.top # NIL THEN round.heap[round.top].parent
                                       ELSE NIL,
                                       round.top, n - 1)

\* delete, one round of `while (parent)` after parent's balance factor was adjusted
deleteWalkRound(h, parent, n) ==
    IF tooRightHeavy(h[parent].balanceFactor)
    THEN deleteWalkOn(RoundRotated(h, parent, rightHeavyCalls(h, parent),
                                   rebalanceRightHeavy(h, parent)), n)
    ELSE IF tooLeftHeavy(h[parent].balanceFactor)
    THEN deleteWalkOn(RoundRotated(h, parent, leftHeavyCalls(h, parent),
                                   rebalanceLeftHeavy(h, parent)), n)
    ELSE deleteWalkOn(Round(h, parent), n)

\* delete, the rounds of `while (parent)`, n of them at most
deleteWalkRounds(h, parent, pp, n) ==
    IF parent = NIL THEN <<>>
    ELSE IF n = 0 THEN <<Unfinished>>
    ELSE deleteWalkRound(deleteBump(h, parent, pp), parent, n)

\* delete: the rounds of the walk from the parent of the node b.node to unlink
deleteRoundsFrom(b, n) ==
    deleteWalkRounds(b.heap, b.heap[b.node].parent, b.node, n)

\* delete after the search
deleteRoundsAt(T, found, n) ==
    IF found = NIL THEN <<>>
    ELSE deleteRoundsFrom(deleteCopyRight(deleteCopyLeft(T.heap, found)), n)

\* delete(key): the rounds of its walk, n at most
deleteRounds(T, key, n) ==
    IF T.root = NIL \/ Falsy(key) THEN <<>>
    ELSE deleteRoundsAt(T, deleteFind(T.heap, T.root, key), n)

\* ------------------------------------------------------------ index.ts, traversals
\* s.pop(): the stack without its top, and its top
Rest(s) == SubSeq(s, 1, Len(s) - 1)

Top(s) == s[Len(s)]

\* the loop shared by keys(), values() and entries(): the nodes in the order
\* they are yielded; s is the stack, out the nodes yielded so far
RECURSIVE yieldLoop(_, _, _, _)
\* yieldLoop yielding a node when it is pushed, not when it is popped
yieldLoop_preorder(h, node, s, out) ==
    IF node # NIL THEN yieldLoop(h, h[node].left, Append(s, node), Append(out, node))
    ELSE IF Len(s) > 0 THEN yieldLoop(h, h[Top(s)].right, Rest(s), out)
    ELSE out

\* the loop of the three generators
yieldLoop(h, node, s, out) ==
    IF node # NIL THEN yieldLoop(h, h[node].left, Append(s, node), out)
    ELSE IF Len(s) > 0
         THEN yieldLoop(h, h[Top(s)].right, Rest(s), Append(out, Top(s)))
    ELSE out

\* the keys of a sequence of nodes
KeysOf(h, nodes) == [i \in 1..Len(nodes) |-> h[nodes[i]].key]

\* keys(): the keys yielded, in order
keysIter(T) == KeysOf(T.heap, yieldLoop(T.heap, T.root, <<>>, <<>>))

\* the [key, value] pairs of a sequence of nodes
EntriesOf(h, nodes) == [i \in 1..Len(nodes) |-> <<h[nodes[i]].key, h[nodes[i]].value>>]

\* entries(): the [key, value] pairs yielded, in order
entries(T) == EntriesOf(T.heap, yieldLoop(T.heap, T.root, <<>>, <<>>))

\* the values of a sequence of nodes
ValuesOf(h, nodes) == [i \in 1..Len(nodes) |-> h[nodes[i]].value]

\* values(): the values yielded, in order
valuesIter(T) == ValuesOf(T.heap, yieldLoop(T.heap, T.root, <<>>, <<>>))

\* one resumption of a generator, from its position (node, s) to its next
\* yield or to its end: the position it is suspended at and the node yielded
RECURSIVE yieldNext(_, _, _)
\* yieldNext resuming at the popped node's parent side: node.right is not taken
yieldNext_noRight(h, node, s) ==
    IF node # NIL THEN yieldNext(h, h[node].left, Append(s, node))
    ELSE IF Len(s) > 0
         THEN [node |-> NIL, s |-> Rest(s), yielded |-> Top(s), done |-> FALSE]
    ELSE [node |-> NIL, s |-> <<>>, yielded |-> NIL, done |-> TRUE]

\* the generators' loop up to `yield`, resumed at `node = node.right`
yieldNext(h, node, s) ==
    IF node # NIL THEN yieldNext(h, h[node].left, Append(s, node))
    ELSE IF Len(s) > 0
         THEN [node |-> h[Top(s)].right, s |-> Rest(s), yielded |-> Top(s), done |-> FALSE]
    ELSE [node |-> NIL, s |-> <<>>, yielded |-> NIL, done |-> TRUE]

\* a visitor that returns a truthy value at its stop-th invocation and a falsy
\* one at every other (never a truthy one when stop = 0)
Truthy(stop, calls) == stop # 0 /\ Len(calls) = stop

\* forEach, after callback(node, i++) was invoked: done = !!callback(...)
RECURSIVE forEachLoop(_, _, _, _, _, _)
\* forEachCalled going on whatever the callback returned
forEachCalled_deaf(h, n, s, i, calls, stop) ==
    forEachLoop(h, h[n].right, s, i, calls, stop)

\* done = !!callback(node, i++); node = node.right
forEachCalled(h, n, s, i, calls, stop) ==
    IF Truthy(stop, calls) THEN calls
    ELSE forEachLoop(h, h[n].right, s, i, calls, stop)

\* forEach, the loop: calls are the invocations made, each [node, i]
forEachLoop(h, node, s, i, calls, stop) ==
    IF node # NIL THEN forEachLoop(h, h[node].left, Append(s, node), i, calls, stop)
    ELSE IF Len(s) > 0
         THEN forEachCalled(h, Top(s), Rest(s), i + 1,
                            Append(calls, [node |-> Top(s), i |-> i]), stop)
    ELSE calls

\* forEach(callback): the invocations of the callback, in order
forEach(T, stop) == forEachLoop(T.heap, T.root, <<>>, 0, <<>>, stop)

\* range, after fn.call(ctx, node) was invoked
RECURSIVE rangeLoop(_, _, _, _, _, _, _)
rangeCalled(h, n, Q, low, high, calls, stop) ==
    IF Truthy(stop, calls) THEN calls
    ELSE rangeLoop(h, h[n].right, Q, low, high, calls, stop)

\* rangePopped leaving out the nodes whose key equals low
rangePopped_exclusive(h, n, Q, low, high, calls, stop) ==
    IF compare(h[n].key, high) > 0 THEN calls
    ELSE IF compare(h[n].key, low) > 0
         THEN rangeCalled(h, n, Q, low, high, Append(calls, n), stop)
    ELSE rangeLoop(h, h[n].right, Q, low, high, calls, stop)

\* range, the node popped from Q
rangePopped(h, n, Q, low, high, calls, stop) ==
    IF compare(h[n].key, high) > 0 THEN calls
    ELSE IF compare(h[n].key, low) >= 0
         THEN rangeCalled(h, n, Q, low, high, Append(calls, n), stop)
    ELSE rangeLoop(h, h[n].right, Q, low, high, calls, stop)

\* range, the loop: calls are the nodes fn was invoked on
rangeLoop(h, node, Q, low, high, calls, stop) ==
    IF node # NIL THEN rangeLoop(h, h[node].left, Append(Q, node), low, high, calls, stop)
    ELSE IF Len(Q) # 0 THEN rangePopped(h, Top(Q), Rest(Q), low, high, calls, stop)
    ELSE calls

\* range(low, high, fn): the nodes fn was invoked on, in order
range(T, low, high, stop) == rangeLoop(T.heap, T.root, <<>>, low, high, <<>>, stop)

\* what range does to a node: "push" (Q.push), "pop" (Q.pop and the comparison
\* with high), "call" (fn.call)
Event(kind, node) == [kind |-> kind, node |-> node]

\* range, the loop again, listing what it does: ev are the events so far
RECURSIVE rangeEvents(_, _, _, _, _, _, _, _)
\* rangeEvents going on to the right of a node whose key exceeds high
rangeEvents_noBreak(h, node, Q, low, high, calls, stop, ev) ==
    IF node # NIL
    THEN rangeEvents(h, h[node].left, Append(Q, node), low, high, calls, stop,
                     Append(ev, Event("push", node)))
    ELSE IF Len(Q) # 0
    THEN IF compare(h[Top(Q)].key, high) <= 0 /\ compare(h[Top(Q)].key, low) >= 0
         THEN IF Truthy(stop, Append(calls, Top(Q)))
              THEN ev \o <<Event("pop", Top(Q)), Event("call", Top(Q))>>
              ELSE rangeEvents(h, h[Top(Q)].right, Rest(Q), low, high,
                               Append(calls, Top(Q)), stop,
                               ev \o <<Event("pop", Top(Q)), Event("call", Top(Q))>>)
         ELSE rangeEvents(h, h[Top(Q)].right, Rest(Q), low, high, calls, stop,
                          Append(ev, Event("pop", Top(Q))))
    ELSE ev

rangeEvents(h, node, Q, low, high, calls, stop, ev) ==
    IF node # NIL
    THEN rangeEvents(h, h[node].left, Append(Q, node), low, high, calls, stop,
                     Append(ev, Event("push", node)))
    ELSE IF Len(Q) # 0
    THEN IF compare(h[Top(Q)].key, high) > 0 THEN Append(ev, Event("pop", Top(Q)))
         ELSE IF compare(h[Top(Q)].key, low) >= 0
         THEN IF Truthy(stop, Append(calls, Top(Q)))
              THEN ev \o <<Event("pop", Top(Q)), Event("call", Top(Q))>>
              ELSE rangeEvents(h, h[Top(Q)].right, Rest(Q), low, high,
                               Append(calls, Top(Q)), stop,
                               ev \o <<Event("pop", Top(Q)), Event("call", Top(Q))>>)
         ELSE rangeEvents(h, h[Top(Q)].right, Rest(Q), low, high, calls, stop,
                          Append(ev, Event("pop", Top(Q))))
    ELSE ev

\* atResult taking the node of the last invocation, whatever its index
atResult_last(calls, index) ==
    IF Len(calls) > 0 THEN calls[Len(calls)].node ELSE NIL

\* at: r after this.forEach((node, i) => { if (i === index) return (r = node) });
\* the callback is truthy at the invocation with i = index, the (index + 1)-th,
\* and r is assigned in that invocation alone
atResult(calls, index) ==
    IF Len(calls) > 0 /\ calls[Len(calls)].i = index THEN calls[Len(calls)].node
    ELSE NIL

\* at(index): the node, or NIL (undefined)
at(T, index) == atResult(forEach(T, IF index >= 0 THEN index + 1 ELSE 0), index)

\* minNode without the descent
minNode_root(T) == T.root

\* minNode(): the leftmost node, or NIL (undefined)
minNode(T) == IF T.root = NIL THEN NIL ELSE leftmost(T.heap, T.root)

\* maxNode(): the rightmost node, or NIL (undefined)
maxNode(T) == IF T.root = NIL THEN NIL ELSE rightmost(T.heap, T.root)

\* min(), max(): the key of minNode(), maxNode(), or NoKey (undefined)
keyOrNone(h, node) == IF node = NIL THEN NoKey ELSE h[node].key

min_key(T) == keyOrNone(T.heap, minNode(T))

max_key(T) == keyOrNone(T.heap, maxNode(T))

\* next: while (successor && successor.right === node) climb
RECURSIVE nextClimb(_, _, _)
\* nextClimb stopping at the parent
nextClimb_parent(h, node, successor) == successor

\* successor = node.parent; while (...) { node = successor; successor = successor.parent }
nextClimb(h, node, successor) ==
    IF successor # NIL /\ h[successor].right = node
    THEN nextClimb(h, successor, h[successor].parent)
    ELSE successor

\* AVLTree.next(node): the successor, or NIL (undefined)
next(h, node) ==
    IF node = NIL THEN NIL
    ELSE IF h[node].right # NIL THEN leftmost(h, h[node].right)
    ELSE nextClimb(h, node, h[node].parent)

\* prev: while (predecessor && predecessor.left === node) climb
RECURSIVE prevClimb(_, _, _)
prevClimb(h, node, predecessor) ==
    IF predecessor # NIL /\ h[predecessor].left = node
    THEN prevClimb(h, predecessor, h[predecessor].parent)
    ELSE predecessor

\* AVLTree.prev(node): the predecessor, or NIL (undefined)
prev(h, node) ==
    IF node = NIL THEN NIL
    ELSE IF h[node].left # NIL THEN rightmost(h, h[node].left)
    ELSE prevClimb(h, node, h[node].parent)

\* ------------------------------------------------------------ utils.ts, bulk load
\* keys[i] of a JavaScript array (0-based); NoKey is `undefined`, read outside the array
At(arr, i) == IF i >= 0 /\ i < Len(arr) THEN arr[i + 1] ELSE NoKey

\* compare(a, b) where a may be `undefined`: every relational test on undefined is false
compareU(a, b) == IF a = NoKey \/ b = NoKey THEN 0 ELSE compare(a, b)

\* the exchange of arr[i] and arr[j]
Swap(arr, i, j) ==
    [arr EXCEPT ![i + 1] = arr[j + 1], ![j + 1] = arr[i + 1]]

\* do i++ while (compare(keys[i], pivot) < 0)
RECURSIVE sortScanUp(_, _, _)
sortScanUp(keys, i, pivot) ==
    IF compareU(At(keys, i + 1), pivot) < 0 THEN sortScanUp(keys, i + 1, pivot)
    ELSE i + 1

\* do j-- while (compare(keys[j], pivot) > 0)
RECURSIVE sortScanDown(_, _, _)
sortScanDown(keys, j, pivot) ==
    IF compareU(At(keys, j - 1), pivot) > 0 THEN sortScanDown(keys, j - 1, pivot)
    ELSE j - 1

\* sort, the partition loop (while (true) {...}): [keys, values, j]
RECURSIVE sortPartition(_, _, _, _, _)
RECURSIVE sortSwap(_, _, _, _, _)
sortPartition(keys, values, i, j, pivot) ==
    sortSwap(keys, values, sortScanUp(keys, i, pivot), sortScanDown(keys, j, pivot),
             pivot)

\* sortSwap exchanging the keys and leaving the values where they are
sortSwap_keysOnly(keys, values, i, j, pivot) ==
    IF i >= j THEN [keys |-> keys, values |-> values, j |-> j]
    ELSE sortPartition(Swap(keys, i, j), values, i, j, pivot)

\* if (i >= j) break; otherwise the exchange and the next round
sortSwap(keys, values, i, j, pivot) ==
    IF i >= j THEN [keys |-> keys, values |-> values, j |-> j]
    ELSE sortPartition(Swap(keys, i, j), Swap(values, i, j), i, j, pivot)

\* sort(keys, values, left, right, compare): [keys, values]
RECURSIVE sort(_, _, _, _)
RECURSIVE sortHalves(_, _, _)
RECURSIVE sortUpper(_, _, _)
sort(keys, values, left, right) ==
    IF left >= right THEN [keys |-> keys, values |-> values]
    ELSE sortHalves(sortPartition(keys, values, left - 1, right + 1,
                                  At(keys, (left + right) \div 2)),
                    left, right)

\* sort(keys, values, left, j, compare); sort(keys, values, j + 1, right, compare)
sortHalves(p, left, right) ==
    sortUpper(sort(p.keys, p.values, left, p.j), p.j, right)

sortUpper(s, j, right) == sort(s.keys, s.values, j + 1, right)

\* the indexes of keys[] and values[] that the partition loop reads or writes:
\* those the two scans pass over, which the exchange then writes
RECURSIVE sortPartitionIndexes(_, _, _, _)
sortPartitionIndexes(keys, i, j, pivot) ==
    ((i + 1)..sortScanUp(keys, i, pivot))
    \cup (sortScanDown(keys, j, pivot)..(j - 1))
    \cup IF sortScanUp(keys, i, pivot) >= sortScanDown(keys, j, pivot) THEN {}
         ELSE sortPartitionIndexes(Swap(keys, sortScanUp(keys, i, pivot),
                                        sortScanDown(keys, j, pivot)),
                                   sortScanUp(keys, i, pivot),
                                   sortScanDown(keys, j, pivot), pivot)

\* the indexes that sort(keys, values, left, right, compare) reads or writes,
\* the pivot's and those of the two recursive calls included
RECURSIVE sortIndexes(_, _, _, _)
sortIndexes(keys, values, left, right) ==
    IF left >= right THEN {}
    ELSE LET pivot == At(keys, (left + right) \div 2)
             p == sortPartition(keys, values, left - 1, right + 1, pivot)
             lower == sort(p.keys, p.values, left, p.j)
         IN  {(left + right) \div 2}
             \cup sortPartitionIndexes(keys, left - 1, right + 1, pivot)
             \cup sortIndexes(p.keys, p.values, left, p.j)
             \cup sortIndexes(lower.keys, lower.values, p.j + 1, right)

\* loadDone storing the right subtree in node.left
loadDone_left(r, node) == [heap |-> [r.heap EXCEPT ![node].left = r.ret], ret |-> node]

\* node.right = (the right subtree r built); return node
loadDone(r, node) == [heap |-> [r.heap EXCEPT ![node].right = r.ret], ret |-> node]

\* loadRecursive(parent, keys, values, start, end): [heap, ret]
RECURSIVE loadRecursive(_, _, _, _, _, _)
RECURSIVE loadNode(_, _, _, _, _, _, _, _)
RECURSIVE loadRight(_, _, _, _, _, _)
\* loadRecursive taking the first key of the range for the middle one
loadRecursive_skewed(h, parent, keys, values, start, end) ==
    IF end - start > 0
    THEN loadNode(h, parent, keys, values, start, end, start, NewId(h))
    ELSE [heap |-> h, ret |-> NIL]

\* const size = end - start; if (size > 0) { const middle = ...
loadRecursive(h, parent, keys, values, start, end) ==
    IF end - start > 0
    THEN loadNode(h, parent, keys, values, start, end,
                  start + ((end - start) \div 2), NewId(h))
    ELSE [heap |-> h, ret |-> NIL]

\* the node for keys[middle], then its left subtree
loadNode(h, parent, keys, values, start, end, middle, node) ==
    loadRight(loadRecursive(Alloc(h, node,
                                  [key |-> At(keys, middle), value |-> At(values, middle),
                                   parent |-> parent, balanceFactor |-> 0,
                                   left |-> NIL, right |-> NIL]),
                            node, keys, values, start, middle),
              node, keys, values, middle, end)

\* node.left = (the left subtree l built); then the right subtree
loadRight(l, node, keys, values, middle, end) ==
    loadDone(loadRecursive([l.heap EXCEPT ![node].left = l.ret],
                           node, keys, values, middle + 1, end),
             node)

\* markBalance(node): [heap, ret] with ret the height of node
RECURSIVE markBalance(_, _)
RECURSIVE markRight(_, _)
markBalance(h, node) ==
    IF node = NIL THEN [heap |-> h, ret |-> 0]
    ELSE markRight(markBalance(h, h[node].left), node)

\* node.balanceFactor = lh - rh; return Math.max(lh, rh) + 1
markNode(r, node, lh) ==
    [heap |-> [r.heap EXCEPT ![node].balanceFactor = lh - r.ret],
     ret  |-> Max(lh, r.ret) + 1]

\* rh = markBalance(node.right), after lh = markBalance(node.left) gave l
markRight(l, node) == markNode(markBalance(l.heap, l.heap[node].right), node, l.ret)

\* load: markBalance(this._root); this._size = size
loadMark(l, sz) ==
    [tree |-> Tree(markBalance(l.heap, l.ret).heap, l.ret, sz), threw |-> FALSE]

\* load: this._root = loadRecursive(undefined, keys, values, 0, size)
loadBuild(T, s, sz) == loadMark(loadRecursive(T.heap, NIL, s.keys, s.values, 0, sz), sz)

\* load without the test of this._size
load_unchecked(T, keys, values, presort) ==
    loadBuild(T,
              IF presort THEN sort(keys, values, 0, Len(keys) - 1)
              ELSE [keys |-> keys, values |-> values],
              Len(keys))

\* load refusing keys that are not in order when it is not asked to sort them
load_ordered(T, keys, values, presort) ==
    IF T.size # 0 \/ (~presort /\ \E i \in 1..(Len(keys) - 1) : keys[i] > keys[i + 1])
    THEN [tree |-> T, threw |-> TRUE]
    ELSE loadBuild(T,
                   IF presort THEN sort(keys, values, 0, Len(keys) - 1)
                   ELSE [keys |-> keys, values |-> values],
                   Len(keys))

\* load(keys, values, presort): [tree, threw]
load(T, keys, values, presort) ==
    IF T.size # 0 THEN [tree |-> T, threw |-> TRUE]
    ELSE loadBuild(T,
                   IF presort THEN sort(keys, values, 0, Len(keys) - 1)
                   ELSE [keys |-> keys, values |-> values],
                   Len(keys))

\* ------------------------------------------------------------ the runtime
\* Object identity is observable only through links.  The objects reachable
\* from the root (through any link of a reachable object) are the live ones;
\* Visit lists them in the order a depth-first walk from the root meets them.
RECURSIVE Visit(_, _, _)
Visit(h, todo, acc) ==
    IF todo = <<>> THEN acc
    ELSE IF Head(todo) = NIL \/ (\E i \in 1..Len(acc) : acc[i] = Head(todo))
         THEN Visit(h, Tail(todo), acc)
         ELSE Visit(h, <<h[Head(todo)].left, h[Head(todo)].right,
                         h[Head(todo)].parent>> \o Tail(todo),
                    Append(acc, Head(todo)))

\* the position of object n in the list
Pos(order, n) ==
    IF n = NIL THEN NIL ELSE CHOOSE i \in 1..Len(order) : order[i] = n

\* the live objects renamed 1, 2, ... in the order given
Renamed(T, order) ==
    Tree([i \in 1..Len(order) |->
            [T.heap[order[i]] EXCEPT !.left   = Pos(order, @),
                                     !.right  = Pos(order, @),
                                     !.parent = Pos(order, @)]],
         Pos(order, T.root), T.size)

\* garbage collection, compacting: an object nothing live refers to is gone,
\* and the live objects are renamed in visiting order
Collect(T) == Renamed(T, Visit(T.heap, <<T.root>>, <<>>))

\* ------------------------------------------------------------ the state machine
\* the calls: each is the whole method, followed by the collection
This == Tree(heap, root, size)

\* the last call: its name and arguments, what it returned (ok: delete's boolean,
\* whether shift/pop returned an entry, whether load returned without throwing;
\* rkey, rvalue: the entry shift/pop returned), the rotations it made and the
\* size before it
Call(name, key, value, ok, rkey, rvalue, rots) ==
    [name |-> name, key |-> key, value |-> value, ok |-> ok,
     rkey |-> rkey, rvalue |-> rvalue, rots |-> rots, size0 |-> size]

Becomes(T) ==
    \E C \in {Collect(T)} :
    /\ heap' = C.heap
    /\ root' = C.root
    /\ size' = C.size
    /\ UNCHANGED noDuplicates

\* new AVLTree(comparator, noDuplicates)
Init ==
    /\ heap = <<>>
    /\ root = NIL
    /\ size = 0
    /\ noDuplicates \in BOOLEAN
    /\ op = Call("new", NoKey, NoValue, TRUE, NoKey, NoValue, 0)
    /\ hist = <<>>

\* the non-decreasing (strictly increasing when strict) sequences
IsSorted(keys, strict) ==
    \A i \in 1..(Len(keys) - 1) :
        IF strict THEN keys[i] < keys[i + 1] ELSE keys[i] <= keys[i + 1]

NoRepeat(keys) == \A i, j \in 1..Len(keys) : i # j => keys[i] # keys[j]

\* the array lengths tried: load on a non-empty tree throws before it reads its
\* arguments, so the empty arrays stand for all of them there
LoadLen == IF size = 0 THEN MaxLoad ELSE 0

\* set(key, value) allocates no node beyond the MaxNodes modelled
SetFits(key) == size < MaxNodes \/ (noDuplicates /\ has(This, key))

SetCall(key, value) ==
    /\ SetFits(key)
    /\ \E r \in {set(This, noDuplicates, key, value)} :
       /\ Becomes(r.tree)
       /\ op' = Call("set", key, value, TRUE, NoKey, NoValue, r.rots)

DeleteCall(key) ==
    \E d \in {delete(This, key)} :
    /\ Becomes(d.tree)
    /\ op' = Call("delete", key, NoValue, d.ret, NoKey, NoValue, d.rots)

ShiftCall ==
    \E r \in {shift(This)} :
    /\ Becomes(r.tree)
    /\ op' = Call("shift", NoKey, NoValue, r.key # NoKey, r.key, r.value, r.rots)

PopCall ==
    \E r \in {pop(This)} :
    /\ Becomes(r.tree)
    /\ op' = Call("pop", NoKey, NoValue, r.key # NoKey, r.key, r.value, r.rots)

ClearCall ==
    /\ Becomes(clear(This))
    /\ op' = Call("clear", NoKey, NoValue, TRUE, NoKey, NoValue, 0)

\* load(keys, values, presort) with the keys the caller contract asks for: sorted unless presort is
\* set, and without repeated keys in reject-duplicates mode
LoadAsked(keys, presort) ==
    /\ presort \/ IsSorted(keys, noDuplicates)
    /\ noDuplicates => NoRepeat(keys)

LoadCall(keys, values, presort) ==
    /\ LoadAsked(keys, presort)
    /\ \E r \in {load(This, keys, values, presort)} :
       /\ Becomes(r.tree)
       /\ op' = Call("load", NoKey, NoValue, ~r.threw, NoKey, NoValue, 0)

\* ---- every call, on a new tree
Set(key, value) == SetCall(key, value) /\ UNCHANGED hist

Delete(key) == DeleteCall(key) /\ UNCHANGED hist

Shift == ShiftCall /\ UNCHANGED hist

Pop == PopCall /\ UNCHANGED hist

Clear == ClearCall /\ UNCHANGED hist

Load(keys, values, presort) == LoadCall(keys, values, presort) /\ UNCHANGED hist

Next ==
    \/ \E key \in Keys, value \in Values : Set(key, value)
    \/ \E key \in Keys : Delete(key)
    \/ Shift
    \/ Pop
    \/ Clear
    \/ \E presort \in BOOLEAN, n \in 0..LoadLen :
          \E keys \in [1..n -> Keys], values \in [1..n -> Values] :
             Load(keys, values, presort)

Spec == Init /\ [][Next]_vars

\* ---- the mutating calls alone: set, delete, shift, pop on a new tree
NextMutators ==
    \/ \E key \in Keys, value \in Values : Set(key, value)
    \/ \E key \in Keys : Delete(key)
    \/ Shift
    \/ Pop

SpecMutators == Init /\ [][NextMutators]_vars

\* ---- set and delete, with the caller's record of what it stored in place of
\* the last call: hist.last[k] is the value of the latest set(k, v) that no
\* successful delete(k) followed (NoValue when there is none), hist.ever the
\* keys ever set, hist.replaced whether some set(k, v) found k stored with
\* another value
InitLookup ==
    /\ heap = <<>>
    /\ root = NIL
    /\ size = 0
    /\ noDuplicates \in BOOLEAN
    /\ op = Call("new", NoKey, NoValue, TRUE, NoKey, NoValue, 0)
    /\ hist = [last |-> [k \in Keys |-> NoValue], ever |-> {}, replaced |-> FALSE]

LookupSet(key, value) ==
    /\ SetFits(key)
    /\ Becomes(set(This, noDuplicates, key, value).tree)
    /\ hist' = [last |-> [hist.last EXCEPT ![key] = value],
                ever |-> hist.ever \cup {key},
                replaced |-> hist.replaced \/ hist.last[key] \notin {NoValue, value}]
    /\ UNCHANGED op

LookupDelete(key) ==
    /\ \E d \in {delete(This, key)} :
       /\ Becomes(d.tree)
       /\ hist' = [hist EXCEPT !.last[key] = IF d.ret THEN NoValue ELSE @]
    /\ UNCHANGED op

NextLookup ==
    \/ \E key \in Keys, value \in Values : LookupSet(key, value)
    \/ \E key \in Keys : LookupDelete(key)

SpecLookup == InitLookup /\ [][NextLookup]_vars

\* ---- the round trip: distinct keys are inserted into a new tree, then
\* deleted one by one; hist.pending are the keys inserted and not yet deleted
InitRoundTrip ==
    /\ heap = <<>>
    /\ root = NIL
    /\ size = 0
    /\ noDuplicates \in BOOLEAN
    /\ op = Call("new", NoKey, NoValue, TRUE, NoKey, NoValue, 0)
    /\ hist = [phase |-> "insert", pending |-> {}]

RoundTripInsert(key, value) ==
    /\ hist.phase = "insert"
    /\ key \notin hist.pending
    /\ SetCall(key, value)
    /\ hist' = [phase |-> "insert", pending |-> hist.pending \cup {key}]

RoundTripDelete(key) ==
    /\ key \in hist.pending
    /\ DeleteCall(key)
    /\ hist' = [phase |-> "delete", pending |-> hist.pending \ {key}]

NextRoundTrip ==
    \/ \E key \in Keys, value \in Values : RoundTripInsert(key, value)
    \/ \E key \in Keys : RoundTripDelete(key)

SpecRoundTrip == InitRoundTrip /\ [][NextRoundTrip]_vars

\* ---- set, delete and load, and between them the traversals of the tree they
\* built; hist is the last traversal made since the tree last changed: its
\* name, its arguments (x, y), the invocation at which the visitor returned a
\* truthy value (stop, 0 for never), the nodes it yielded or visited, the index
\* arguments passed with them (idx), the keys yielded (out), the node returned
Query(name, x, y, stop, nodes, idx, out, ret) ==
    [name |-> name, x |-> x, y |-> y, stop |-> stop,
     nodes |-> nodes, idx |-> idx, out |-> out, ret |-> ret]

NoQuery == Query("none", NoKey, NoKey, 0, <<>>, <<>>, <<>>, NIL)

InitTraverse ==
    /\ heap = <<>>
    /\ root = NIL
    /\ size = 0
    /\ noDuplicates \in BOOLEAN
    /\ op = Call("new", NoKey, NoValue, TRUE, NoKey, NoValue, 0)
    /\ hist = NoQuery

TraverseSet(key, value) ==
    /\ SetFits(key)
    /\ Becomes(set(This, noDuplicates, key, value).tree)
    /\ hist' = NoQuery
    /\ UNCHANGED op

TraverseDelete(key) ==
    /\ Becomes(delete(This, key).tree)
    /\ hist' = NoQuery
    /\ UNCHANGED op

TraverseLoad(keys, values, presort) ==
    /\ size = 0
    /\ LoadAsked(keys, presort)
    /\ Becomes(load(This, keys, values, presort).tree)
    /\ hist' = NoQuery
    /\ UNCHANGED op

\* a traversal leaves the tree as it is, so that one made after another starts
\* from the tree the last set, delete or load left: each is taken from there
Asked(q) ==
    /\ hist = NoQuery
    /\ hist' = q
    /\ UNCHANGED <<heap, root, size, noDuplicates, op>>

KeysCall == Asked(Query("keys", NoKey, NoKey, 0, <<>>, <<>>, keysIter(This), NIL))

\* the nodes and the index arguments of a sequence of invocations
CallNodes(calls) == [j \in 1..Len(calls) |-> calls[j].node]

CallIndexes(calls) == [j \in 1..Len(calls) |-> calls[j].i]

ForEachCall(stop) ==
    \E calls \in {forEach(This, stop)} :
       Asked(Query("forEach", NoKey, NoKey, stop, CallNodes(calls), CallIndexes(calls),
                   <<>>, NIL))

RangeCall(low, high, stop) ==
    Asked(Query("range", low, high, stop, range(This, low, high, stop), <<>>, <<>>, NIL))

AtCall(index) == Asked(Query("at", index, NoKey, 0, <<>>, <<>>, <<>>, at(This, index)))

NextCall(node) ==
    Asked(Query("next", node, NoKey, 0, <<>>, <<>>, <<>>, next(heap, node)))

PrevCall(node) ==
    Asked(Query("prev", node, NoKey, 0, <<>>, <<>>, <<>>, prev(heap, node)))

MinNodeCall == Asked(Query("minNode", NoKey, NoKey, 0, <<>>, <<>>, <<>>, minNode(This)))

MaxNodeCall == Asked(Query("maxNode", NoKey, NoKey, 0, <<>>, <<>>, <<>>, maxNode(This)))

\* the key returned, if one was
Returned(key) == IF key = NoKey THEN <<>> ELSE <<key>>

MinCall == Asked(Query("min", NoKey, NoKey, 0, <<>>, <<>>, Returned(min_key(This)), NIL))

MaxCall == Asked(Query("max", NoKey, NoKey, 0, <<>>, <<>>, Returned(max_key(This)), NIL))

\* the invocations at which a visitor may return a truthy value (0: at none)
Stops == 0..MaxNodes

\* no traversal reads or compares a value: one value stands for all of them
Payload == "a"

NextTraverse ==
    \/ \E key \in Keys : TraverseSet(key, Payload)
    \/ \E key \in Keys : TraverseDelete(key)
    \/ \E presort \in BOOLEAN, n \in 1..MaxLoad :
          \E keys \in [1..n -> Keys] :
             TraverseLoad(keys, [j \in 1..n |-> Payload], presort)
    \/ KeysCall
    \/ \E stop \in Stops : ForEachCall(stop)
    \/ \E low, high \in Keys, stop \in Stops : RangeCall(low, high, stop)
    \/ \E index \in -1..MaxNodes : AtCall(index)
    \/ \E node \in DOMAIN heap : NextCall(node)
    \/ \E node \in DOMAIN heap : PrevCall(node)
    \/ MinNodeCall
    \/ MaxNodeCall
    \/ MinCall
    \/ MaxCall

SpecTraverse == InitTraverse /\ [][NextTraverse]_vars

\* ---- bulk load against one-by-one insertion: duplicate-free sorted keys are
\* loaded into a new tree and its entries() noted in hist.loaded; the tree is
\* cleared and the same pairs (hist.todo: those not yet inserted) are inserted
\* with set, in any order
InitBulk ==
    /\ heap = <<>>
    /\ root = NIL
    /\ size = 0
    /\ noDuplicates \in BOOLEAN
    /\ op = Call("new", NoKey, NoValue, TRUE, NoKey, NoValue, 0)
    /\ hist = [phase |-> "new", loaded |-> <<>>, todo |-> {}]

BulkLoad(keys, values, presort) ==
    /\ hist.phase = "new"
    /\ IsSorted(keys, TRUE)
    /\ LoadCall(keys, values, presort)
    /\ hist' = [phase |-> "loaded",
                loaded |-> entries(load(This, keys, values, presort).tree),
                todo |-> {<<keys[j], values[j]>> : j \in 1..Len(keys)}]

BulkClear ==
    /\ hist.phase = "loaded"
    /\ ClearCall
    /\ hist' = [hist EXCEPT !.phase = "insert"]

BulkInsert(key, value) ==
    /\ hist.phase = "insert"
    /\ <<key, value>> \in hist.todo
    /\ SetCall(key, value)
    /\ hist' = [hist EXCEPT !.todo = @ \ {<<key, value>>}]

NextBulk ==
    \/ \E presort \in BOOLEAN, n \in 0..MaxLoad :
          \E keys \in [1..n -> Keys], values \in [1..n -> Values] :
             BulkLoad(keys, values, presort)
    \/ BulkClear
    \/ \E key \in Keys, value \in Values : BulkInsert(key, value)

SpecBulk == InitBulk /\ [][NextBulk]_vars

\* ---- the shape load builds: sorted keys, as many as there are nodes at most,
\* are loaded into a new tree; hist.n is the number of keys passed
InitShape ==
    /\ heap = <<>>
    /\ root = NIL
    /\ size = 0
    /\ noDuplicates \in BOOLEAN
    /\ op = Call("new", NoKey, NoValue, TRUE, NoKey, NoValue, 0)
    /\ hist = [n |-> 0]

ShapeLoad(keys, values, presort) ==
    /\ op.name = "new"
    /\ IsSorted(keys, noDuplicates)
    /\ LoadCall(keys, values, presort)
    /\ hist' = [n |-> Len(keys)]

NextShape ==
    \E presort \in BOOLEAN, n \in 0..MaxNodes :
       \E keys \in [1..n -> Keys], values \in [1..n -> Values] :
          ShapeLoad(keys, values, presort)

SpecShape == InitShape /\ [][NextShape]_vars

\* ------------------------------------------------------------ observations
\* the nodes reachable from n through child links
RECURSIVE Descendants(_, _)
Descendants(h, S) ==
    LET S2 == (S \cup {h[n].left : n \in S} \cup {h[n].right : n \in S}) \ {NIL}
    IN IF S2 = S THEN S ELSE Descendants(h, S2)

Subtree(h, n) == IF n = NIL THEN {} ELSE Descendants(h, {n})

Nodes == Subtree(heap, root)

KeysIn(h, n) == {h[m].key : m \in Subtree(h, n)}

\* the in-order listing of the nodes below n, following child links to depth fuel
RECURSIVE InOrder(_, _, _)
InOrder(h, n, fuel) ==
    IF n = NIL \/ fuel = 0 THEN <<>>
    ELSE InOrder(h, h[n].left, fuel - 1) \o <<n>> \o InOrder(h, h[n].right, fuel - 1)

Listing == InOrder(heap, root, MaxNodes + 2)

Mutators == {"set", "delete", "shift", "pop"}

\* ------------------------------------------------------------ claims
\* C1: after every call of set, delete, shift, pop, clear and load (sorted keys
\* into an empty tree), in both modes, every node reachable from the root has
\* subtrees whose heights differ by at most 1, and isBalanced() is true.
C1_Balanced ==
    /\ isBalanced(heap, root)
    /\ \A n \in Nodes :
         Abs(height(heap, heap[n].left) - height(heap, heap[n].right)) <= 1

\* a delete in reject-duplicates mode that had to rotate
C1_Witness == noDuplicates /\ op.name = "delete" /\ op.ok /\ op.rots > 0

\* C2 as claimed: for every node the keys of its left subtree compare <= its key
\* (< in reject-duplicates mode) and the keys of its right subtree compare
\* strictly greater, in both modes.
C2_OrderStrictRight ==
    \A n \in Nodes :
      /\ \A k \in KeysIn(heap, heap[n].left) :
           IF noDuplicates THEN compare(k, heap[n].key) < 0
           ELSE compare(k, heap[n].key) <= 0
      /\ \A k \in KeysIn(heap, heap[n].right) : compare(k, heap[n].key) > 0

\* C2 as amended: in reject-duplicates mode the keys of a node's left subtree
\* compare strictly less and those of its right subtree strictly greater than
\* its key; in duplicate-allowed mode the left keys compare <= and the right
\* keys compare >= (a rotation can move an equal key into the right subtree).
C2_Order ==
    \A n \in Nodes :
      /\ \A k \in KeysIn(heap, heap[n].left) :
           IF noDuplicates THEN compare(k, heap[n].key) < 0
           ELSE compare(k, heap[n].key) <= 0
      /\ \A k \in KeysIn(heap, heap[n].right) :
           IF noDuplicates THEN compare(k, heap[n].key) > 0
           ELSE compare(k, heap[n].key) >= 0

\* a mutating call in duplicate-allowed mode that rotated and left an equal key
\* in some node's right subtree
C2_Witness ==
    /\ ~noDuplicates
    /\ op.name \in Mutators
    /\ op.rots > 0
    /\ \E n \in Nodes : heap[n].key \in KeysIn(heap, heap[n].right)

\* C3: between operations, the stored balanceFactor of every reachable node
\* equals height(left subtree) - height(right subtree) of the actual structure.
C3_FactorsExact ==
    \A n \in Nodes :
      heap[n].balanceFactor = height(heap, heap[n].left) - height(heap, heap[n].right)

\* a delete that made a double rotation
C3_Witness == op.name = "delete" /\ op.ok /\ op.rots = 2 /\ size = 3

\* C4: size equals the number of nodes reachable from the root through child
\* links, and size = 0 exactly when the root is absent (isEmpty()).
C4_SizeIsCount ==
    /\ size = Cardinality(Nodes)
    /\ (size = 0) <=> (root = NIL)

\* a delete that removed the last node
C4_Witness == op.name = "delete" /\ op.ok /\ root = NIL /\ size = 0

\* C5: every non-root node is the left or right child of the node its parent
\* link names, the root is the unique reachable node without a parent, and no
\* node is reachable by two paths.
C5_ParentLinks ==
    /\ root # NIL => heap[root].parent = NIL
    /\ \A n \in Nodes :
         IF heap[n].parent = NIL THEN n = root
         ELSE /\ heap[n].parent \in Nodes
              /\ \/ heap[heap[n].parent].left = n
                 \/ heap[heap[n].parent].right = n
    /\ \A n \in Nodes :
         /\ heap[n].left # NIL => heap[heap[n].left].parent = n
         /\ heap[n].right # NIL => heap[heap[n].right].parent = n
    /\ Len(Listing) = Cardinality(Nodes)

\* a set whose rotation replaced the root
C5_Witness == op.name = "set" /\ op.rots > 0 /\ size = 3 /\ heap[root].parent = NIL

\* the stored entries: how many reachable nodes hold key k with value v
Count(h, rt, k, v) ==
    Cardinality({n \in Subtree(h, rt) : h[n].key = k /\ h[n].value = v})

\* some stored key compares equal to k
Stored(h, rt, k) == \E n \in Subtree(h, rt) : compare(k, h[n].key) = 0

\* C6 as claimed: for every key inserted and not subsequently deleted has(key)
\* is true and get(key) returns the value passed to the most recent set for
\* that key; for every key never inserted has(key) is false; in both modes.
C6_LookupLast ==
    \A k \in Keys :
      /\ hist.last[k] # NoValue => has(This, k) /\ get(This, k) = hist.last[k]
      /\ k \notin hist.ever => ~has(This, k)

\* C6 as amended: in both modes has(key) is true for every key inserted and
\* not subsequently deleted and false for every key never inserted; get(key)
\* returns the value of the most recent set for that key in reject-duplicates
\* mode, and in duplicate-allowed mode the value of one of the stored entries
\* with that key.
C6_Lookup ==
    \A k \in Keys :
      /\ hist.last[k] # NoValue =>
           /\ has(This, k)
           /\ IF noDuplicates THEN get(This, k) = hist.last[k]
              ELSE Count(heap, root, k, get(This, k)) > 0
      /\ k \notin hist.ever => ~has(This, k)

\* reject-duplicates mode, three or more entries: a key was set twice with
\* different values, another key was set and deleted, a third is looked up
C6_Witness ==
    /\ noDuplicates
    /\ hist.replaced /\ size >= 3
    /\ \E k \in hist.ever : hist.last[k] = NoValue /\ k # 0 /\ ~has(This, k)
    /\ \E k \in Keys : hist.last[k] # NoValue /\ get(This, k) = hist.last[k]

\* C7 as claimed: delete(key) on a tree holding an entry whose key compares
\* equal to key returns true, decreases size by exactly 1, removes exactly one
\* entry with that key and leaves every other entry as it was.
C7_DeleteRemovesOne ==
    [][(op'.name = "delete" /\ Stored(heap, root, op'.key)) =>
         /\ op'.ok
         /\ size' = size - 1
         /\ \E v \in Values :
              \A k2 \in Keys, v2 \in Values :
                 Count(heap', root', k2, v2) =
                   Count(heap, root, k2, v2)
                     - (IF compare(k2, op'.key) = 0 /\ v2 = v THEN 1 ELSE 0)]_vars

\* C8: delete(key) for a key comparing equal to no stored key returns false and
\* leaves root, links, keys, values, balance factors and size unchanged.
C8_DeleteAbsent ==
    [][(op'.name = "delete" /\ ~Stored(heap, root, op'.key)) =>
         /\ ~op'.ok
         /\ heap' = heap
         /\ root' = root
         /\ size' = size]_vars

\* a failed delete of a truthy key on a tree of three or more nodes
C8_Witness ==
    /\ op.name = "delete" /\ ~op.ok /\ ~Falsy(op.key)
    /\ ~Stored(heap, root, op.key)
    /\ size >= 3

\* C9 as claimed: inserting distinct keys into an empty tree and then deleting
\* every one of them, in any orders, leaves size = 0 and the root absent.
C9_RoundTrip ==
    (hist.phase = "delete" /\ hist.pending = {}) => (size = 0 /\ root = NIL)

\* C10: in reject-duplicates mode set(k, v) of a stored key replaces the value
\* of the node holding it and changes nothing else; get(k) then returns v.
C10_SetExisting ==
    [][(op'.name = "set" /\ noDuplicates /\ Stored(heap, root, op'.key)) =>
         /\ size' = size
         /\ root' = root
         /\ DOMAIN heap' = DOMAIN heap
         /\ \A n \in DOMAIN heap :
              heap'[n] = IF compare(op'.key, heap[n].key) = 0
                         THEN [heap[n] EXCEPT !.value = op'.value]
                         ELSE heap[n]
         /\ getFrom(heap', root', op'.key) = op'.value]_vars

\* a set that kept the size of a three-node tree in reject-duplicates mode
C10_Witness ==
    /\ noDuplicates
    /\ op.name = "set" /\ size = op.size0 /\ size >= 3
    /\ get(This, op.key) = op.value
    /\ heap[root].key # op.key

\* C11: a true insertion (any set in duplicate-allowed mode, set of an absent
\* key in reject-duplicates mode) increases size by exactly 1, adds exactly the
\* entry (key, value) and leaves every stored entry's key and value as it was.
C11_SetInserts ==
    [][(op'.name = "set" /\ (~noDuplicates \/ ~Stored(heap, root, op'.key))) =>
         /\ size' = size + 1
         /\ \A k2 \in Keys, v2 \in Values :
              Count(heap', root', k2, v2) =
                Count(heap, root, k2, v2)
                  + (IF k2 = op'.key /\ v2 = op'.value THEN 1 ELSE 0)]_vars

\* duplicate-allowed mode: a set of an entry already stored, with a double rotation
C11_Witness ==
    /\ ~noDuplicates
    /\ op.name = "set" /\ size = op.size0 + 1 /\ op.rots = 2
    /\ Count(heap, root, op.key, op.value) >= 2

\* C12: after any sequence of set and delete calls, in either mode, keys()
\* yields exactly size keys, in non-decreasing order under the comparator.
C12_KeysSorted ==
    hist.name = "keys" =>
      /\ Len(hist.out) = size
      /\ \A j \in 1..(Len(hist.out) - 1) : compare(hist.out[j], hist.out[j + 1]) <= 0

\* keys() of a duplicate-allowed tree of three or more entries, two of them
\* with the same key
C12_Witness ==
    /\ hist.name = "keys" /\ ~noDuplicates
    /\ Len(hist.out) >= 3
    /\ \E j \in 1..(Len(hist.out) - 1) : hist.out[j] = hist.out[j + 1]

\* the least and the greatest stored key
MinKey(h, rt) == CHOOSE k \in KeysIn(h, rt) : \A k2 \in KeysIn(h, rt) : compare(k, k2) <= 0

MaxKeyIn(h, rt) == CHOOSE k \in KeysIn(h, rt) : \A k2 \in KeysIn(h, rt) : compare(k, k2) >= 0

\* C13 as claimed: shift() (pop()) on a non-empty tree returns the key and value
\* of an entry with the minimum (maximum) key and removes that entry: size is
\* smaller by 1 and the stored entries are the previous ones minus the returned
\* pair; on an empty tree it returns nothing and changes nothing.
C13_ShiftPop ==
    [][op'.name \in {"shift", "pop"} =>
         IF root = NIL
         THEN ~op'.ok /\ heap' = heap /\ root' = root /\ size' = size
         ELSE /\ op'.ok
              /\ op'.rkey = IF op'.name = "shift" THEN MinKey(heap, root)
                            ELSE MaxKeyIn(heap, root)
              /\ Count(heap, root, op'.rkey, op'.rvalue) > 0
              /\ size' = size - 1
              /\ \A k2 \in Keys, v2 \in Values :
                   Count(heap', root', k2, v2) =
                     Count(heap, root, k2, v2)
                       - (IF k2 = op'.rkey /\ v2 = op'.rvalue THEN 1 ELSE 0)]_vars

\* C14: load on a tree whose size is not 0 raises an error and mutates nothing:
\* root, links, keys, values, balance factors and size are as before the call.
C14_LoadNonEmpty ==
    [][(op'.name = "load" /\ size # 0) =>
         /\ ~op'.ok
         /\ heap' = heap
         /\ root' = root
         /\ size' = size]_vars

\* a load that threw on a tree of three or more nodes
C14_Witness == op.name = "load" /\ ~op.ok /\ size >= 3 /\ op.size0 = size

\* C15: for duplicate-free sorted keys with their values, the entries in
\* traversal order after load(keys, values) into an empty tree are those after
\* inserting the same pairs one at a time with set, in any insertion order.
C15_LoadAsInserts ==
    (hist.phase = "insert" /\ hist.todo = {}) => entries(This) = hist.loaded

\* three loaded pairs, all inserted again, the last insertion with a rotation
C15_Witness ==
    /\ hist.phase = "insert" /\ hist.todo = {}
    /\ Len(hist.loaded) = 3 /\ size = 3
    /\ op.name = "set" /\ op.rots > 0

\* the least height of a binary tree of n nodes: the smallest h with 2^h - 1 >= n
MinHeight(n) == CHOOSE h \in 0..n : 2^h - 1 >= n /\ \A g \in 0..(h - 1) : 2^g - 1 < n

\* C16: load of n keys builds a tree of exactly n nodes whose height is the
\* least possible for n nodes, the sizes of every node's two subtrees differing
\* by at most 1.
C16_LoadShape ==
    op.name = "load" =>
      /\ op.ok
      /\ size = hist.n
      /\ Cardinality(Nodes) = hist.n
      /\ height(heap, root) = MinHeight(hist.n)
      /\ \A m \in Nodes :
           Abs(Cardinality(Subtree(heap, heap[m].left))
               - Cardinality(Subtree(heap, heap[m].right))) <= 1

\* a load of four keys: a tree of three levels, the last not full
C16_Witness == op.name = "load" /\ hist.n = 4 /\ height(heap, root) = 3

\* the nodes of the in-order listing whose key lies in [low, high], in order
Between(low, high) ==
    LET Inside(n) == compare(heap[n].key, low) >= 0 /\ compare(heap[n].key, high) <= 0
    IN SelectSeq(Listing, Inside)

\* C17: range(low, high, fn) with a visitor that never returns a truthy value
\* invokes fn exactly once on each node whose key k has low <= k <= high, in
\* ascending in-order, and on no other node; on none when low > high.
C17_RangeVisits ==
    (hist.name = "range" /\ hist.stop = 0) =>
      /\ hist.nodes = Between(hist.x, hist.y)
      /\ compare(hist.x, hist.y) > 0 => hist.nodes = <<>>

\* a range that visited two or more nodes and left out a node below low and a
\* node above high
C17_Witness ==
    /\ hist.name = "range" /\ hist.stop = 0
    /\ Len(hist.nodes) >= 2
    /\ \E n \in Nodes : compare(heap[n].key, hist.x) < 0
    /\ \E n \in Nodes : compare(heap[n].key, hist.y) > 0

\* the first n elements of a sequence, all of them when stop is 0 or beyond its end
UpTo(full, stop) ==
    SubSeq(full, 1, IF stop = 0 \/ stop > Len(full) THEN Len(full) ELSE stop)

\* C18: forEach(callback) with a callback that never returns a truthy value
\* invokes it exactly once per node, in ascending in-order, with the index
\* arguments 0, 1, ..., size - 1; in forEach and in range, once the visitor has
\* returned a truthy value it is not invoked again, and the tree is unchanged.
C18_VisitsAndStops ==
    [][hist'.name \in {"forEach", "range"} =>
         /\ heap' = heap /\ root' = root /\ size' = size
         /\ Len(Listing) = size
         /\ hist'.nodes = UpTo(IF hist'.name = "forEach" THEN Listing
                               ELSE Between(hist'.x, hist'.y), hist'.stop)
         /\ hist'.name = "forEach" =>
              hist'.idx = [j \in 1..Len(hist'.nodes) |-> j - 1]]_vars

\* a forEach over three or more nodes whose callback returned a truthy value at
\* its second invocation
C18_Witness ==
    /\ hist.name = "forEach" /\ hist.stop = 2
    /\ size >= 3
    /\ hist.idx = <<0, 1>>

\* the element i places after n in the in-order listing, NIL beyond its ends
Shifted(n, i) ==
    IF Pos(Listing, n) + i \in 1..Len(Listing) THEN Listing[Pos(Listing, n) + i] ELSE NIL

\* the nodes met from n by repeated next, fuel of them at most
RECURSIVE NextWalk(_, _, _)
NextWalk(h, n, fuel) ==
    IF n = NIL \/ fuel = 0 THEN <<>> ELSE <<n>> \o NextWalk(h, next(h, n), fuel - 1)

\* C19: next(n) is the node that follows n in the in-order traversal (absent
\* for the last node) and prev(n) the node that precedes it (absent for the
\* first); repeated next from minNode() visits all size nodes in forEach
\* order, and prev(next(n)) = n whenever next(n) exists.
C19_NextPrev ==
    /\ hist.name = "next" =>
         /\ hist.ret = Shifted(hist.x, 1)
         /\ hist.ret # NIL => prev(heap, hist.ret) = hist.x
         /\ NextWalk(heap, minNode(This), MaxNodes + 2) = CallNodes(forEach(This, 0))
         /\ Len(NextWalk(heap, minNode(This), MaxNodes + 2)) = size
    /\ hist.name = "prev" => hist.ret = Shifted(hist.x, -1)

\* next of a node without a right child that climbed over two parent links
C19_Witness ==
    /\ hist.name = "next" /\ hist.ret # NIL
    /\ heap[hist.x].right = NIL
    /\ heap[hist.x].parent # hist.ret

\* C20: at(i) returns the node at 0-based position i of the in-order traversal
\* for 0 <= i < size and nothing for i < 0 or i >= size; it never changes the
\* tree.
C20_At ==
    [][hist'.name = "at" =>
         /\ heap' = heap /\ root' = root /\ size' = size
         /\ hist'.ret = IF hist'.x >= 0 /\ hist'.x < size THEN Listing[hist'.x + 1]
                        ELSE NIL]_vars

\* at(2) on a tree of four nodes
C20_Witness == hist.name = "at" /\ hist.x = 2 /\ hist.ret # NIL /\ size = 4

\* the number of entries of a listing whose key compares less than k
Below(es, k) == Cardinality({j \in 1..Len(es) : compare(es[j][1], k) < 0})

\* C21: in duplicate-allowed mode, right after set(k, v) the new entry precedes
\* in the in-order traversal every entry stored before whose key compares
\* equal to k, and follows every entry with a smaller key, rotations included.
C21_TiesGoFirst ==
    [][(op'.name = "set" /\ ~noDuplicates) =>
         entries(Tree(heap', root', size')) =
           SubSeq(entries(This), 1, Below(entries(This), op'.key))
             \o <<(<<op'.key, op'.value>>)>>
             \o SubSeq(entries(This), Below(entries(This), op'.key) + 1,
                       Len(entries(This)))]_vars

\* a set that rotated, with the key of an entry stored with another value and
\* above a smaller stored key
C21_Witness ==
    /\ ~noDuplicates
    /\ op.name = "set" /\ op.rots > 0
    /\ \E v \in Values \ {op.value} : Count(heap, root, op.key, v) > 0
    /\ \E n \in Nodes : compare(heap[n].key, op.key) < 0

\* C22: min() returns a stored key that no stored key compares less than, max()
\* one that no stored key compares greater than; minNode() and maxNode() return
\* the first and the last node of the in-order traversal; all four return
\* nothing exactly when the tree is empty.
C22_MinMax ==
    /\ hist.name = "min" =>
         IF size = 0 THEN hist.out = <<>>
         ELSE /\ Len(hist.out) = 1
              /\ hist.out[1] \in KeysIn(heap, root)
              /\ \A k \in KeysIn(heap, root) : compare(k, hist.out[1]) >= 0
    /\ hist.name = "max" =>
         IF size = 0 THEN hist.out = <<>>
         ELSE /\ Len(hist.out) = 1
              /\ hist.out[1] \in KeysIn(heap, root)
              /\ \A k \in KeysIn(heap, root) : compare(k, hist.out[1]) <= 0
    /\ hist.name = "minNode" =>
         hist.ret = IF size = 0 THEN NIL ELSE Listing[1]
    /\ hist.name = "maxNode" =>
         hist.ret = IF size = 0 THEN NIL ELSE Listing[Len(Listing)]

\* min() returning the key 0 of a tree of three or more nodes
C22_Witness == hist.name = "min" /\ hist.out = <<0>> /\ size >= 3

\* the tree fields of a newly constructed tree
Fresh == Tree(<<>>, NIL, 0)

\* C23: clear() from any reachable state leaves the tree empty (root absent,
\* size 0, has(k) false for every k), and a following set or load does what it
\* does on a newly constructed tree of the same duplicate mode.
C23_ClearEmpties ==
    op.name = "clear" =>
      /\ root = NIL /\ size = 0
      /\ \A k \in Keys : ~has(This, k)
      /\ \A k \in Keys, v \in Values :
           Collect(set(This, noDuplicates, k, v).tree)
             = Collect(set(Fresh, noDuplicates, k, v).tree)
      /\ \A presort \in BOOLEAN, n \in 0..MaxLoad :
           \A ks \in [1..n -> Keys], vs \in [1..n -> Values] :
              /\ ~load(This, ks, vs, presort).threw
              /\ Collect(load(This, ks, vs, presort).tree)
                   = Collect(load(Fresh, ks, vs, presort).tree)

\* clear() of a tree of three or more nodes
C23_Witness == op.name = "clear" /\ op.size0 >= 3 /\ root = NIL

\* ---- three keys: distinct keys are inserted into a new tree, three at most;
\* hist.keys are the keys in the order of their insertion
InitThree ==
    /\ heap = <<>>
    /\ root = NIL
    /\ size = 0
    /\ noDuplicates \in BOOLEAN
    /\ op = Call("new", NoKey, NoValue, TRUE, NoKey, NoValue, 0)
    /\ hist = [keys |-> <<>>]

ThreeSet(key, value) ==
    /\ Len(hist.keys) < 3
    /\ \A i \in 1..Len(hist.keys) : hist.keys[i] # key
    /\ SetCall(key, value)
    /\ hist' = [keys |-> Append(hist.keys, key)]

NextThree == \E key \in Keys, value \in Values : ThreeSet(key, value)

SpecThree == InitThree /\ [][NextThree]_vars

\* the i-th smallest of the keys of a sequence without repeated keys
Ranked(keys, i) ==
    CHOOSE k \in {keys[j] : j \in 1..Len(keys)} :
        Cardinality({j \in 1..Len(keys) : keys[j] < k}) = i - 1

\* the rotate calls the third insertion needs: none when the median came first,
\* one when the keys came in increasing or decreasing order, two when the
\* median came last
ThirdRots(keys) ==
    IF keys[1] = Ranked(keys, 2) THEN 0
    ELSE IF keys[2] = Ranked(keys, 2) THEN 1
    ELSE 2

\* C30: three distinct keys inserted into an empty tree, in any order, give the
\* tree whose root holds the median key, whose left child holds the smallest
\* and whose right child the largest key, both children being leaves and all
\* three balance factors 0; the third insertion makes no rotation, a single
\* rotation or a double rotation according to the order.
C30_ThreeKeys ==
    Len(hist.keys) = 3 =>
      /\ size = 3 /\ root # NIL
      /\ heap[root].key = Ranked(hist.keys, 2)
      /\ heap[root].parent = NIL
      /\ heap[root].left # NIL /\ heap[root].right # NIL
      /\ heap[heap[root].left].key = Ranked(hist.keys, 1)
      /\ heap[heap[root].right].key = Ranked(hist.keys, 3)
      /\ \A c \in {heap[root].left, heap[root].right} :
           heap[c].left = NIL /\ heap[c].right = NIL /\ heap[c].parent = root
      /\ \A n \in DOMAIN heap : heap[n].balanceFactor = 0
      /\ DOMAIN heap = {root, heap[root].left, heap[root].right}
      /\ op.rots = ThirdRots(hist.keys)

\* the largest, the smallest and then the median key inserted: a double rotation
C30_Witness ==
    /\ Len(hist.keys) = 3
    /\ hist.keys[1] > hist.keys[3] /\ hist.keys[3] > hist.keys[2]
    /\ op.rots = 2

\* ---- the rotations: trees are built by set and delete, then rotateLeft and
\* rotateRight are called on their nodes, the caller keeping the root reference
\* on the top node; hist is the last rotation: its name and argument, the heap
\* and the root before it, the heap after it, the node it returned and the
\* number of rotations made so far, MaxRotations at most
NoRotation ==
    [name |-> "none", node |-> NIL, before |-> <<>>, root |-> NIL, after |-> <<>>,
     ret |-> NIL, n |-> 0]

InitRotate ==
    /\ heap = <<>>
    /\ root = NIL
    /\ size = 0
    /\ noDuplicates \in BOOLEAN
    /\ op = Call("new", NoKey, NoValue, TRUE, NoKey, NoValue, 0)
    /\ hist = NoRotation

RotateSet(key) ==
    /\ hist = NoRotation
    /\ SetFits(key)
    /\ Becomes(set(This, noDuplicates, key, Payload).tree)
    /\ UNCHANGED <<op, hist>>

RotateDelete(key) ==
    /\ hist = NoRotation
    /\ Becomes(delete(This, key).tree)
    /\ UNCHANGED <<op, hist>>

\* the tree after a rotation of node returned r
Rotated(r, node) ==
    Tree(r.heap, IF node = root /\ r.ret # NIL THEN r.ret ELSE root, size)

RotateLeftCall(node) ==
    \E r \in {rotateLeft(heap, node)} :
    /\ hist.n < MaxRotations
    /\ Becomes(Rotated(r, node))
    /\ hist' = [name |-> "rotateLeft", node |-> node, before |-> heap, root |-> root,
                after |-> r.heap, ret |-> r.ret, n |-> hist.n + 1]
    /\ UNCHANGED op

RotateRightCall(node) ==
    \E r \in {rotateRight(heap, node)} :
    /\ hist.n < MaxRotations
    /\ Becomes(Rotated(r, node))
    /\ hist' = [name |-> "rotateRight", node |-> node, before |-> heap, root |-> root,
                after |-> r.heap, ret |-> r.ret, n |-> hist.n + 1]
    /\ UNCHANGED op

NextRotate ==
    \/ \E key \in Keys : RotateSet(key)
    \/ \E key \in Keys : RotateDelete(key)
    \/ \E node \in DOMAIN heap : RotateLeftCall(node)
    \/ \E node \in DOMAIN heap : RotateRightCall(node)

SpecRotate == InitRotate /\ [][NextRotate]_vars

\* the stored balance factor of n is the height of its left subtree minus the
\* height of its right subtree
Exact(h, n) == h[n].balanceFactor = height(h, h[n].left) - height(h, h[n].right)

\* the child a rotation promotes: the right child for rotateLeft, the left for rotateRight
Promoted == IF hist.name = "rotateLeft" THEN hist.before[hist.node].right
            ELSE hist.before[hist.node].left

\* the last call was a rotation of a node that has the child to promote
RotationMade == hist.name \in {"rotateLeft", "rotateRight"} /\ Promoted # NIL

\* C27: when the stored balance factors of the node and of the child to promote
\* are the true height differences before rotateLeft / rotateRight (at -2 / +2
\* also), both nodes' stored factors are the true height differences after it,
\* and no other node's balance factor changes.
C27_RotationFactors ==
    (RotationMade /\ Exact(hist.before, hist.node) /\ Exact(hist.before, Promoted)) =>
      /\ Exact(hist.after, hist.node)
      /\ Exact(hist.after, Promoted)
      /\ \A n \in DOMAIN hist.before \ {hist.node, Promoted} :
           hist.after[n].balanceFactor = hist.before[n].balanceFactor

\* rotateLeft of a node whose factor was -2 and rotateRight of one at +2, the
\* promoted child leaning the other way
C27_Witness ==
    /\ RotationMade
    /\ Exact(hist.before, hist.node) /\ Exact(hist.before, Promoted)
    /\ hist.name = "rotateRight"
    /\ hist.before[hist.node].balanceFactor = 2
    /\ hist.before[Promoted].balanceFactor = -1

\* the links a rotation sets: outer is the promoted node's child link that takes
\* the rotated node, inner the rotated node's link that takes the promoted
\* node's former subtree on that side
RotationLinks ==
    IF hist.name = "rotateLeft"
    THEN /\ hist.after[Promoted].left = hist.node
         /\ hist.after[Promoted].right = hist.before[Promoted].right
         /\ hist.after[hist.node].right = hist.before[Promoted].left
         /\ hist.after[hist.node].left = hist.before[hist.node].left
    ELSE /\ hist.after[Promoted].right = hist.node
         /\ hist.after[Promoted].left = hist.before[Promoted].left
         /\ hist.after[hist.node].left = hist.before[Promoted].right
         /\ hist.after[hist.node].right = hist.before[hist.node].right

\* the promoted node has taken the rotated node's place under the parent p
\* the rotated node had
RotationPlace(p) ==
    /\ hist.after[Promoted].parent = p
    /\ p # NIL =>
         IF hist.before[p].left = hist.node
         THEN /\ hist.after[p].left = Promoted
              /\ hist.after[p].right = hist.before[p].right
         ELSE /\ hist.after[p].right = Promoted
              /\ hist.after[p].left = hist.before[p].left

\* every child link of h is matched by the child's parent link
LinksMatched(h) ==
    \A n \in DOMAIN h :
        /\ h[n].left # NIL => h[h[n].left].parent = n
        /\ h[n].right # NIL => h[h[n].right].parent = n

\* C28: rotateLeft / rotateRight of a node that has the child to promote keeps
\* the in-order sequence of the keys of the whole tree, returns the promoted
\* child, puts it where the node was under the node's former parent (on the
\* same side, or without a parent), makes the node its child with the promoted
\* node's former inner subtree attached to the node, and leaves every child
\* link matched by the parent link.
C28_RotationLinks ==
    RotationMade =>
      /\ hist.ret = Promoted
      /\ KeysOf(hist.after,
                InOrder(hist.after, IF hist.node = hist.root THEN hist.ret ELSE hist.root,
                        MaxNodes + 2))
           = KeysOf(hist.before, InOrder(hist.before, hist.root, MaxNodes + 2))
      /\ RotationPlace(hist.before[hist.node].parent)
      /\ RotationLinks
      /\ hist.after[hist.node].parent = Promoted
      /\ LinksMatched(hist.after)
      /\ \A n \in DOMAIN hist.before \ {hist.node, Promoted} :
           /\ hist.after[n].left \in {hist.before[n].left, Promoted}
           /\ hist.after[n].right \in {hist.before[n].right, Promoted}
           /\ hist.after[n].key = hist.before[n].key

\* rotateLeft of a right child whose own right child has a left subtree
C28_Witness ==
    /\ RotationMade
    /\ hist.name = "rotateLeft"
    /\ hist.before[hist.node].parent # NIL
    /\ hist.before[hist.before[hist.node].parent].right = hist.node
    /\ hist.before[Promoted].left # NIL

\* ---- the walks: the calls that change the tree, with one value; hist is the
\* walk of the last call: its name and key, the heap before the call, the
\* rounds of its walk (as many as there are nodes at most) and the heap and
\* root when the call returns
NoWalk == [name |-> "none", key |-> NoKey, before |-> <<>>, rounds |-> <<>>,
           after |-> <<>>, root |-> NIL]

Walk(name, key, rounds, T) ==
    [name |-> name, key |-> key, before |-> heap, rounds |-> rounds,
     after |-> Objects(T.heap), root |-> T.root]

InitWalk ==
    /\ heap = <<>>
    /\ root = NIL
    /\ size = 0
    /\ noDuplicates \in BOOLEAN
    /\ op = Call("new", NoKey, NoValue, TRUE, NoKey, NoValue, 0)
    /\ hist = NoWalk

\* the walks are followed in trees of one more node and one more key than
\* the other calls are
WalkNodes == MaxNodes + 1

WalkKeys == 0..(MaxKey + 1)

WalkSet(key) ==
    /\ size < WalkNodes \/ (noDuplicates /\ has(This, key))
    /\ \E r \in {set(This, noDuplicates, key, Payload)},
          w \in {setRounds(This, noDuplicates, key, Payload, size + 1)} :
       /\ Becomes(r.tree)
       /\ hist' = Walk("set", key, w, r.tree)
    /\ UNCHANGED op

WalkDelete(key) ==
    /\ \E d \in {delete(This, key)}, w \in {deleteRounds(This, key, size)} :
       /\ Becomes(d.tree)
       /\ hist' = Walk("delete", key, w, d.tree)
    /\ UNCHANGED op

\* shift and pop call this.delete(node.key) with the key of the node they found
WalkShift ==
    /\ \E r \in {shift(This)} :
       \E w \in {IF root # NIL THEN deleteRounds(This, r.key, size) ELSE <<>>} :
       /\ Becomes(r.tree)
       /\ hist' = Walk("shift", r.key, w, r.tree)
    /\ UNCHANGED op

WalkPop ==
    /\ \E r \in {pop(This)} :
       \E w \in {IF root # NIL THEN deleteRounds(This, r.key, size) ELSE <<>>} :
       /\ Becomes(r.tree)
       /\ hist' = Walk("pop", r.key, w, r.tree)
    /\ UNCHANGED op

WalkLoad(keys, values, presort) ==
    /\ size = 0
    /\ LoadAsked(keys, presort)
    /\ Becomes(load(This, keys, values, presort).tree)
    /\ hist' = NoWalk
    /\ UNCHANGED op

NextWalkCalls ==
    \/ \E key \in WalkKeys : WalkSet(key)
    \/ \E key \in WalkKeys : WalkDelete(key)
    \/ WalkShift
    \/ WalkPop
    \/ \E presort \in BOOLEAN, n \in 1..MaxLoad :
          \E keys \in [1..n -> WalkKeys] :
             WalkLoad(keys, [i \in 1..n |-> Payload], presort)

SpecWalk == InitWalk /\ [][NextWalkCalls]_vars

\* the strict ancestors of n
Above(h, n) == {m \in DOMAIN h : m # n /\ n \in Subtree(h, m)}

LastRound == hist.rounds[Len(hist.rounds)]

\* the rotate calls of a round at node are one rebalancing step: none, one
\* rotation of node, or a rotation of node's child followed by the opposite
\* rotation of node
OneRebalancing(calls, node) ==
    \/ calls = <<>>
    \/ Len(calls) = 1 /\ calls[1].node = node
    \/ /\ Len(calls) = 2
       /\ calls[2].node = node
       /\ calls[1].fn # calls[2].fn
       /\ calls[1].node = IF calls[2].fn = "rotateLeft" THEN hist.before[node].right
                          ELSE hist.before[node].left

\* C25: the walk of a set call goes up from the new leaf's parent one ancestor
\* a round; it makes at most one rebalancing step (a single rotation, or a
\* rotation of the child followed by the rotation of the node) and that round
\* is its last, a round that brings an ancestor's balance factor to 0 is its
\* last too, and otherwise it only ends past the root; the balance factors of
\* the ancestors above the last round's node are not modified, and the tree is
\* balanced with exact balance factors when set returns.
C25_SetWalk ==
    hist.name = "set" =>
      /\ isBalanced(heap, root)
      /\ \A n \in DOMAIN heap : Exact(heap, n)
      /\ \A i \in 1..Len(hist.rounds) :
           /\ hist.rounds[i].node # NIL
           /\ hist.rounds[i].calls # <<>> <=> hist.rounds[i].bf \in {-2, 2}
           /\ OneRebalancing(hist.rounds[i].calls, hist.rounds[i].node)
           /\ i < Len(hist.rounds) =>
                /\ hist.rounds[i].calls = <<>>
                /\ hist.rounds[i].bf \in {-1, 1}
                /\ hist.rounds[i + 1].node = hist.before[hist.rounds[i].node].parent
           /\ i = Len(hist.rounds) =>
                \/ hist.rounds[i].bf = 0
                \/ hist.rounds[i].calls # <<>>
                \/ hist.before[hist.rounds[i].node].parent = NIL
      /\ Len(hist.rounds) > 0 =>
           /\ LastRound.heap = hist.after
           /\ \A n \in Above(hist.before, LastRound.node) :
                hist.after[n].balanceFactor = hist.before[n].balanceFactor

\* a set whose walk ends in its second round or later with a double rotation,
\* below an ancestor whose balance factor is not 0
C25_Witness ==
    /\ hist.name = "set"
    /\ Len(hist.rounds) >= 2
    /\ Len(LastRound.calls) = 2
    /\ \E n \in Above(hist.before, LastRound.node) : hist.before[n].balanceFactor # 0

\* C29: in the states reached by set, delete, shift, pop and load, every
\* rotateLeft that set or delete calls is passed a node with a right child and
\* every rotateRight a node with a left child, so that no rotation returns
\* undefined, and no set raises 'failed to find parent node for insert'.
C29_RotationsHaveChild ==
    /\ \A i \in 1..Len(hist.rounds) :
         /\ \A j \in 1..Len(hist.rounds[i].calls) : hist.rounds[i].calls[j].child # NIL
         /\ hist.rounds[i].top # NIL
    /\ \A key \in WalkKeys : ~setThrows(This, noDuplicates, key)

\* a delete that made a double rotation
C29_Witness ==
    /\ hist.name = "delete"
    /\ \E i \in 1..Len(hist.rounds) :
         /\ Len(hist.rounds[i].calls) = 2
         /\ \A j \in 1..2 : hist.rounds[i].calls[j].child # NIL

\* ---- a deep tree: the keys of DeepKeys are inserted in their order into a
\* new tree, and keys are deleted, from the first deletion on without further
\* insertion; hist is the walk of the last call, as above.  Deletions are
\* followed in the trees of MaxNodes + 1 nodes at most and in those that lack
\* fewer than MaxNodes of the keys
DeepFits == size <= MaxNodes + 1 \/ size + MaxNodes > Len(DeepKeys)

DeepSet ==
    /\ hist.name \in {"none", "set"}
    /\ size < Len(DeepKeys)
    /\ \E r \in {set(This, noDuplicates, DeepKeys[size + 1], Payload)},
          w \in {setRounds(This, noDuplicates, DeepKeys[size + 1], Payload, size + 1)} :
       /\ Becomes(r.tree)
       /\ hist' = Walk("set", DeepKeys[size + 1], w, r.tree)
    /\ UNCHANGED op

DeepDelete(key) == DeepFits /\ WalkDelete(key)

DeepShift == DeepFits /\ WalkShift

DeepPop == DeepFits /\ WalkPop

NextDeep ==
    \/ DeepSet
    \/ \E i \in 1..Len(DeepKeys) : DeepDelete(DeepKeys[i])
    \/ DeepShift
    \/ DeepPop

SpecDeep == InitWalk /\ [][NextDeep]_vars

\* the balance factor of the root of the subtree at the end of round r, and
\* that node's parent
TopFactor(r) == r.heap[r.top].balanceFactor

TopParent(r) == r.heap[r.top].parent

\* C26: the walk of delete (also when shift and pop call it) adjusts one
\* ancestor a round, rotating it when its factor has left [-1, 1]; it ends with
\* the round after which the factor of the root of the current subtree is +1 or
\* -1, or past the root, and after every other round, rotation or not, it goes
\* on at that subtree root's parent; the tree is balanced with exact balance
\* factors when delete returns.
C26_DeleteWalk ==
    hist.name \in {"delete", "shift", "pop"} =>
      /\ isBalanced(heap, root)
      /\ \A n \in DOMAIN heap : Exact(heap, n)
      /\ \A i \in 1..Len(hist.rounds) :
           /\ hist.rounds[i].node # NIL
           /\ hist.rounds[i].top # NIL
           /\ hist.rounds[i].calls # <<>> <=> hist.rounds[i].bf \in {-2, 2}
           /\ i < Len(hist.rounds) =>
                /\ TopFactor(hist.rounds[i]) \notin {-1, 1}
                /\ TopParent(hist.rounds[i]) # NIL
                /\ hist.rounds[i + 1].node = TopParent(hist.rounds[i])
           /\ i = Len(hist.rounds) =>
                \/ TopFactor(hist.rounds[i]) \in {-1, 1}
                \/ TopParent(hist.rounds[i]) = NIL
      /\ Len(hist.rounds) > 0 =>
           \A n \in DOMAIN hist.after :
              /\ hist.after[n].balanceFactor = LastRound.heap[n].balanceFactor
              /\ hist.after[n].parent = LastRound.heap[n].parent

\* a delete that rotated in two rounds, at two ancestors one above the other
C26_Witness ==
    /\ hist.name = "delete"
    /\ \E i, j \in 1..Len(hist.rounds) :
         /\ i < j
         /\ hist.rounds[i].calls # <<>>
         /\ hist.rounds[j].calls # <<>>
         /\ hist.rounds[i].top \in Subtree(hist.rounds[j].heap, hist.rounds[j].top) \ {hist.rounds[j].top}

\* ------------------------------------------------------------ the loops, counted
\* Each operator below follows one loop or recursion of the source and is true
\* when it ends within n rounds (n nested calls for a recursion); the state a
\* loop starts in is the one the loops before it have left.
RECURSIVE hasEnds(_, _, _, _)
hasEnds(h, node, key, n) ==
    IF node = NIL THEN TRUE
    ELSE IF n = 0 THEN FALSE
    ELSE IF compare(key, h[node].key) = 0 THEN TRUE
    ELSE IF compare(key, h[node].key) < 0 THEN hasEnds(h, h[node].left, key, n - 1)
    ELSE hasEnds(h, h[node].right, key, n - 1)

RECURSIVE getEnds(_, _, _, _)
getEnds(h, node, key, n) ==
    IF node = NIL THEN TRUE
    ELSE IF n = 0 THEN FALSE
    ELSE IF compare(key, h[node].key) = 0 THEN TRUE
    ELSE IF compare(key, h[node].key) < 0 THEN getEnds(h, h[node].left, key, n - 1)
    ELSE getEnds(h, h[node].right, key, n - 1)

\* forEach, `while (!done)`: k invocations of the callback were made
RECURSIVE forEachEnds(_, _, _, _, _, _)
forEachEnds(h, node, s, k, stop, n) ==
    IF n = 0 THEN FALSE
    ELSE IF node # NIL THEN forEachEnds(h, h[node].left, Append(s, node), k, stop, n - 1)
    ELSE IF Len(s) > 0
         THEN \/ (stop # 0 /\ k + 1 = stop)
              \/ forEachEnds(h, h[Top(s)].right, Rest(s), k + 1, stop, n - 1)
    ELSE TRUE

\* range, `while (Q.length !== 0 || node)`: k invocations of fn were made
RECURSIVE rangeEnds(_, _, _, _, _, _, _, _)
rangeEnds(h, node, Q, low, high, k, stop, n) ==
    IF Len(Q) = 0 /\ node = NIL THEN TRUE
    ELSE IF n = 0 THEN FALSE
    ELSE IF node # NIL
         THEN rangeEnds(h, h[node].left, Append(Q, node), low, high, k, stop, n - 1)
    ELSE IF compare(h[Top(Q)].key, high) > 0 THEN TRUE
    ELSE IF compare(h[Top(Q)].key, low) >= 0
         THEN \/ (stop # 0 /\ k + 1 = stop)
              \/ rangeEnds(h, h[Top(Q)].right, Rest(Q), low, high, k + 1, stop, n - 1)
    ELSE rangeEnds(h, h[Top(Q)].right, Rest(Q), low, high, k, stop, n - 1)

\* while (min.left) min = min.left
RECURSIVE leftmostEnds(_, _, _)
leftmostEnds(h, min, n) ==
    IF h[min].left = NIL THEN TRUE
    ELSE IF n = 0 THEN FALSE
    ELSE leftmostEnds(h, h[min].left, n - 1)

\* while (max.right) max = max.right
RECURSIVE rightmostEnds(_, _, _)
rightmostEnds(h, max, n) ==
    IF h[max].right = NIL THEN TRUE
    ELSE IF n = 0 THEN FALSE
    ELSE rightmostEnds(h, h[max].right, n - 1)

\* next: while (successor && successor.right === node)
RECURSIVE nextClimbEnds(_, _, _, _)
nextClimbEnds(h, node, successor, n) ==
    IF ~(successor # NIL /\ h[successor].right = node) THEN TRUE
    ELSE IF n = 0 THEN FALSE
    ELSE nextClimbEnds(h, successor, h[successor].parent, n - 1)

nextEnds(h, node, n) ==
    IF node = NIL THEN TRUE
    ELSE IF h[node].right # NIL THEN leftmostEnds(h, h[node].right, n)
    ELSE nextClimbEnds(h, node, h[node].parent, n)

\* prev: while (predecessor && predecessor.left === node)
RECURSIVE prevClimbEnds(_, _, _, _)
prevClimbEnds(h, node, predecessor, n) ==
    IF ~(predecessor # NIL /\ h[predecessor].left = node) THEN TRUE
    ELSE IF n = 0 THEN FALSE
    ELSE prevClimbEnds(h, predecessor, h[predecessor].parent, n - 1)

prevEnds(h, node, n) ==
    IF node = NIL THEN TRUE
    ELSE IF h[node].left # NIL THEN rightmostEnds(h, h[node].left, n)
    ELSE prevClimbEnds(h, node, h[node].parent, n)

\* set, the two descent loops `while (node)`
RECURSIVE setDescendEnds(_, _, _, _, _)
setDescendEnds(h, nd, node, key, n) ==
    IF node = NIL THEN TRUE
    ELSE IF n = 0 THEN FALSE
    ELSE IF nd /\ compare(key, h[node].key) = 0 THEN TRUE
    ELSE IF (nd /\ compare(key, h[node].key) < 0)
             \/ (~nd /\ setGoesLeft(compare(key, h[node].key)))
         THEN setDescendEnds(h, nd, h[node].left, key, n - 1)
    ELSE setDescendEnds(h, nd, h[node].right, key, n - 1)

\* the rounds of a walk came to the walk's end
Finished(rounds) == Len(rounds) = 0 \/ rounds[Len(rounds)].node # NIL

\* set(key, value): its descent and its walk end within n rounds each
setEnds(T, nd, key, value, n) ==
    \/ T.root = NIL
    \/ /\ setDescendEnds(T.heap, nd, T.root, key, n)
       /\ Finished(setRounds(T, nd, key, value, n))

\* delete, the search loop `while (node)`
RECURSIVE deleteFindEnds(_, _, _, _)
deleteFindEnds(h, node, key, n) ==
    IF node = NIL THEN TRUE
    ELSE IF n = 0 THEN FALSE
    ELSE IF compare(key, h[node].key) = 0 THEN TRUE
    ELSE IF compare(key, h[node].key) < 0 THEN deleteFindEnds(h, h[node].left, key, n - 1)
    ELSE deleteFindEnds(h, h[node].right, key, n - 1)

\* delete, `while (max.left || max.right)` with its inner `while (max.right)`
RECURSIVE deleteLeftEnds(_, _, _, _)
\* deleteLeftNext without `max = max.left`
deleteLeftNext_stuck(h, node, max, n) ==
    IF h[max].left # NIL THEN deleteLeftEnds(copyUp(h, node, max), max, max, n - 1)
    ELSE deleteLeftEnds(copyUp(h, node, max), node, max, n - 1)

\* the body of the outer loop after the inner one: the copy, and
\* if (max.left) { node = max; max = max.left }
deleteLeftNext(h, node, max, n) ==
    IF h[max].left # NIL THEN deleteLeftEnds(copyUp(h, node, max), max, h[max].left, n - 1)
    ELSE deleteLeftEnds(copyUp(h, node, max), node, max, n - 1)

deleteLeftEnds(h, node, max, n) ==
    IF h[max].left = NIL /\ h[max].right = NIL THEN TRUE
    ELSE IF n = 0 THEN FALSE
    ELSE /\ rightmostEnds(h, max, n)
         /\ deleteLeftNext(h, node, rightmost(h, max), n)

\* delete, `while (min.left || min.right)` with its inner `while (min.left)`
RECURSIVE deleteRightEnds(_, _, _, _)
deleteRightNext(h, node, min, n) ==
    IF h[min].right # NIL
    THEN deleteRightEnds(copyUp(h, node, min), min, h[min].right, n - 1)
    ELSE deleteRightEnds(copyUp(h, node, min), node, min, n - 1)

deleteRightEnds(h, node, min, n) ==
    IF h[min].left = NIL /\ h[min].right = NIL THEN TRUE
    ELSE IF n = 0 THEN FALSE
    ELSE /\ leftmostEnds(h, min, n)
         /\ deleteRightNext(h, node, leftmost(h, min), n)

\* delete: if (node.left) {...} and, on what it leaves, if (node.right) {...}
deleteCopyLeftEnds(h, node, n) ==
    h[node].left = NIL \/ deleteLeftEnds(h, node, h[node].left, n)

deleteCopyRightEnds(a, n) ==
    a.heap[a.node].right = NIL \/ deleteRightEnds(a.heap, a.node, a.heap[a.node].right, n)

\* delete, from the node found on
deleteEndsAt(T, found, key, n) ==
    \/ found = NIL
    \/ /\ deleteCopyLeftEnds(T.heap, found, n)
       /\ deleteCopyRightEnds(deleteCopyLeft(T.heap, found), n)
       /\ Finished(deleteRounds(T, key, n))

\* delete(key): its search, its copy-up loops and its walk end within n rounds each
deleteEnds(T, key, n) ==
    \/ T.root = NIL
    \/ Falsy(key)
    \/ /\ deleteFindEnds(T.heap, T.root, key, n)
       /\ deleteEndsAt(T, deleteFind(T.heap, T.root, key), key, n)

\* shift(): the loop of minNode(), then this.delete(node.key)
shiftEnds(T, n) ==
    \/ T.root = NIL
    \/ /\ leftmostEnds(T.heap, T.root, n)
       /\ deleteEnds(T, T.heap[leftmost(T.heap, T.root)].key, n)

\* pop(): the loop of maxNode(), then this.delete(node.key)
popEnds(T, n) ==
    \/ T.root = NIL
    \/ /\ rightmostEnds(T.heap, T.root, n)
       /\ deleteEnds(T, T.heap[rightmost(T.heap, T.root)].key, n)

\* sort: do i++ while (compare(keys[i], pivot) < 0)
RECURSIVE sortScanUpEnds(_, _, _, _)
sortScanUpEnds(keys, i, pivot, n) ==
    IF n = 0 THEN FALSE
    ELSE IF compareU(At(keys, i + 1), pivot) < 0 THEN sortScanUpEnds(keys, i + 1, pivot, n - 1)
    ELSE TRUE

\* sort: do j-- while (compare(keys[j], pivot) > 0)
RECURSIVE sortScanDownEnds(_, _, _, _)
sortScanDownEnds(keys, j, pivot, n) ==
    IF n = 0 THEN FALSE
    ELSE IF compareU(At(keys, j - 1), pivot) > 0
         THEN sortScanDownEnds(keys, j - 1, pivot, n - 1)
    ELSE TRUE

\* sort, `while (true)`: the two scans, then the break or the exchange
RECURSIVE sortPartitionEnds(_, _, _, _, _)
sortSwapEnds(keys, i, j, pivot, n) ==
    i >= j \/ sortPartitionEnds(Swap(keys, i, j), i, j, pivot, n - 1)

sortPartitionEnds(keys, i, j, pivot, n) ==
    /\ n > 0
    /\ sortScanUpEnds(keys, i, pivot, n)
    /\ sortScanDownEnds(keys, j, pivot, n)
    /\ sortSwapEnds(keys, sortScanUp(keys, i, pivot), sortScanDown(keys, j, pivot),
                    pivot, n)

\* sort, the two recursive calls on the partition p
RECURSIVE sortEnds(_, _, _, _, _)
sortHalvesEnd(p, left, right, n) ==
    /\ sortEnds(p.keys, p.values, left, p.j, n - 1)
    /\ sortEnds(sort(p.keys, p.values, left, p.j).keys,
                sort(p.keys, p.values, left, p.j).values, p.j + 1, right, n - 1)

\* sort(keys, values, left, right, compare) returns within n nested calls, its
\* loops ending within n rounds
sortEnds(keys, values, left, right, n) ==
    IF left >= right THEN TRUE
    ELSE /\ n > 0
         /\ sortPartitionEnds(keys, left - 1, right + 1, At(keys, (left + right) \div 2), n)
         /\ sortHalvesEnd(sortPartition(keys, values, left - 1, right + 1,
                                        At(keys, (left + right) \div 2)),
                          left, right, n)

\* loadRecursive(parent, keys, values, start, end) returns within n nested calls
RECURSIVE loadRecursiveEnds(_, _, _)
loadRecursiveEnds(start, end, n) ==
    IF end - start > 0
    THEN /\ n > 0
         /\ loadRecursiveEnds(start, start + ((end - start) \div 2), n - 1)
         /\ loadRecursiveEnds(start + ((end - start) \div 2) + 1, end, n - 1)
    ELSE TRUE

\* markBalance(node) returns within n nested calls
RECURSIVE markBalanceEnds(_, _, _)
markBalanceEnds(h, node, n) ==
    IF node = NIL THEN TRUE
    ELSE /\ n > 0
         /\ markBalanceEnds(h, h[node].left, n - 1)
         /\ markBalanceEnds(h, h[node].right, n - 1)

\* load: loadRecursive on the keys s, then markBalance on the tree it built
loadBuildEnds(T, s, n) ==
    /\ loadRecursiveEnds(0, Len(s.keys), n)
    /\ markBalanceEnds(loadRecursive(T.heap, NIL, s.keys, s.values, 0, Len(s.keys)).heap,
                       loadRecursive(T.heap, NIL, s.keys, s.values, 0, Len(s.keys)).ret, n)

\* load(keys, values, presort): sort, loadRecursive and markBalance return
loadEnds(T, keys, values, presort, n) ==
    \/ T.size # 0
    \/ IF presort
       THEN /\ sortEnds(keys, values, 0, Len(keys) - 1, n)
            /\ loadBuildEnds(T, sort(keys, values, 0, Len(keys) - 1), n)
       ELSE loadBuildEnds(T, [keys |-> keys, values |-> values], n)

\* ---- the calls, counted: every call is made with the rounds of its loops
\* counted; hist is the last call: its name, whether all its loops ended within
\* Rounds(s) rounds, s being the number of nodes (of keys passed, for load), and
\* the size before it.  A call whose loops did not end leaves the tree as it is.
Rounds(s) == 2 * s + 2

Ended(name, ended) == [name |-> name, ended |-> ended, size0 |-> size]

InitEnds ==
    /\ heap = <<>>
    /\ root = NIL
    /\ size = 0
    /\ noDuplicates \in BOOLEAN
    /\ op = Call("new", NoKey, NoValue, TRUE, NoKey, NoValue, 0)
    /\ hist = Ended("new", TRUE)

EndsSet(key) ==
    /\ SetFits(key)
    /\ \E e \in {setEnds(This, noDuplicates, key, Payload, Rounds(size))} :
       /\ Becomes(IF e THEN set(This, noDuplicates, key, Payload).tree ELSE This)
       /\ hist' = Ended("set", e)
    /\ UNCHANGED op

EndsDelete(key) ==
    /\ \E e \in {deleteEnds(This, key, Rounds(size))} :
       /\ Becomes(IF e THEN delete(This, key).tree ELSE This)
       /\ hist' = Ended("delete", e)
    /\ UNCHANGED op

EndsShift ==
    /\ \E e \in {shiftEnds(This, Rounds(size))} :
       /\ Becomes(IF e THEN shift(This).tree ELSE This)
       /\ hist' = Ended("shift", e)
    /\ UNCHANGED op

EndsPop ==
    /\ \E e \in {popEnds(This, Rounds(size))} :
       /\ Becomes(IF e THEN pop(This).tree ELSE This)
       /\ hist' = Ended("pop", e)
    /\ UNCHANGED op

EndsLoad(keys, values, presort) ==
    /\ LoadAsked(keys, presort)
    /\ \E e \in {loadEnds(This, keys, values, presort, Rounds(Len(keys)))} :
       /\ Becomes(IF e THEN load(This, keys, values, presort).tree ELSE This)
       /\ hist' = Ended("load", e)
    /\ UNCHANGED op

\* the calls that read the tree
EndsQuery(name, ended) ==
    /\ hist' = Ended(name, ended)
    /\ UNCHANGED <<heap, root, size, noDuplicates, op>>

EndsHas(key) == EndsQuery("has", root = NIL \/ hasEnds(heap, root, key, Rounds(size)))

EndsGet(key) == EndsQuery("get", getEnds(heap, root, key, Rounds(size)))

EndsForEach(stop) ==
    EndsQuery("forEach", forEachEnds(heap, root, <<>>, 0, stop, Rounds(size)))

EndsRange(low, high, stop) ==
    EndsQuery("range", rangeEnds(heap, root, <<>>, low, high, 0, stop, Rounds(size)))

EndsNext(node) == EndsQuery("next", nextEnds(heap, node, Rounds(size)))

EndsPrev(node) == EndsQuery("prev", prevEnds(heap, node, Rounds(size)))

NextEnds ==
    \/ \E key \in Keys : EndsSet(key)
    \/ \E key \in Keys : EndsDelete(key)
    \/ EndsShift
    \/ EndsPop
    \/ \E presort \in BOOLEAN, n \in 0..LoadLen :
          \E keys \in [1..n -> Keys] : EndsLoad(keys, [i \in 1..n |-> Payload], presort)
    \/ \E key \in Keys : EndsHas(key)
    \/ \E key \in Keys : EndsGet(key)
    \/ \E stop \in Stops : EndsForEach(stop)
    \/ \E low, high \in Keys, stop \in Stops : EndsRange(low, high, stop)
    \/ \E node \in DOMAIN heap \cup {NIL} : EndsNext(node)
    \/ \E node \in DOMAIN heap \cup {NIL} : EndsPrev(node)

SpecEnds == InitEnds /\ [][NextEnds]_vars

\* C24: every call of set, delete, shift, pop, has, get, forEach, range, next,
\* prev and load (with or without presort), on every tree the calls reach,
\* returns: each of its loops (the descents, delete's copy-up loops, the walks
\* back up of set and delete, the traversal loops, the scans of sort) ends
\* within 2s + 2 rounds and each of its recursions (sort, loadRecursive,
\* markBalance) within 2s + 2 nested calls, s being the number of nodes, or of
\* keys passed to load.
C24_CallsEnd == hist.ended

\* a delete that took a node out of a tree of four nodes or more and returned
C24_Witness ==
    /\ hist.ended
    /\ hist.name = "delete"
    /\ hist.size0 >= 4
    /\ size < hist.size0

\* C38: rotateLeft of a node without a right child, and rotateRight of a node
\* without a left child, returns undefined and changes no field of any node.
C38_RotationAbsent ==
    (hist.name \in {"rotateLeft", "rotateRight"} /\ Promoted = NIL) =>
      /\ hist.ret = NIL
      /\ hist.after = hist.before

\* rotateLeft of a node that has a left child and a parent, and no right child
C38_Witness ==
    /\ hist.name = "rotateLeft"
    /\ Promoted = NIL
    /\ hist.before[hist.node].left # NIL
    /\ hist.before[hist.node].parent # NIL
    /\ hist.ret = NIL

\* the call just made left every node, the root and the size as they were
Untouched == heap' = heap /\ root' = root /\ size' = size

\* a delete of a falsy key, stored or not
FalsyDelete == op'.name = "delete" /\ Falsy(op'.key)

\* a shift or pop on a tree whose minimum, or maximum, key is falsy
FalsyEnd ==
    /\ root # NIL
    /\ \/ op'.name = "shift" /\ Falsy(MinKey(heap, root))
       \/ op'.name = "pop" /\ Falsy(MaxKeyIn(heap, root))

C35_Step ==
    /\ FalsyDelete => ~op'.ok /\ Untouched
    /\ FalsyEnd => op'.ok /\ Falsy(op'.rkey) /\ Untouched

Holders(k) == {n \in Nodes : compare(k, heap[n].key) = 0}

\* how many nodes are above n
RECURSIVE Depth(_)
Depth(n) == IF heap[n].parent = NIL THEN 0 ELSE 1 + Depth(heap[n].parent)

\* the nodes of H with no node of H nearer the root
Shallowest(H) == {n \in H : \A m \in H : Depth(n) <= Depth(m)}

\* every node above n has n on the side a search for k takes from it
RECURSIVE OnSearchPath(_, _)
OnSearchPath(n, k) ==
    \/ heap[n].parent = NIL
    \/ /\ IF compare(k, heap[heap[n].parent].key) < 0
          THEN heap[heap[n].parent].left = n
          ELSE heap[heap[n].parent].right = n
       /\ OnSearchPath(heap[n].parent, k)

\* some node has an entry of its own key in its right subtree
EqualOnRight(k) ==
    \E n \in Holders(k) : k \in KeysIn(heap, heap[n].right)

\* C36: in both modes, after any sequence of set and delete calls, has(k) is
\* true exactly when some stored entry's key compares equal to k, and get(k)
\* is then the value of the shallowest node holding k, which lies on the
\* search path; also when an equal key sits in a right subtree.
C36_HasGet ==
    \A k \in Keys :
      \E H \in {Holders(k)} :
        /\ has(This, k) <=> H # {}
        /\ H # {} =>
             /\ Cardinality(Shallowest(H)) = 1
             /\ \A n \in Shallowest(H) :
                  /\ get(This, k) = heap[n].value
                  /\ OnSearchPath(n, k)
        /\ H = {} => get(This, k) = NoValue

\* duplicate-allowed mode: a key is stored at a node and again in that node's
\* right subtree with another value, and a delete has succeeded before
C36_Witness ==
    /\ ~noDuplicates
    /\ \E k \in Keys :
         /\ EqualOnRight(k)
         /\ has(This, k)
         /\ \E n \in Holders(k) : heap[n].value # get(This, k)
    /\ \E k \in hist.ever : hist.last[k] = NoValue

\* ---- traversals one after another: set and delete build a tree; then
\* generators are opened and resumed, and forEach is called, on the tree left.
\* hist is the traversal under way: its name, the generator's locals (node, s),
\* the nodes yielded or visited so far (nodes), whether it ran to its end
\* (done), and how the traversal before it was left (earlier)
Iteration(name, node, s, nodes, done, earlier) ==
    [name |-> name, node |-> node, s |-> s, nodes |-> nodes, done |-> done,
     earlier |-> earlier]

NoIteration == Iteration("none", NIL, <<>>, <<>>, FALSE, "none")

Generators == {"keys", "values", "entries"}

InitIterate ==
    /\ heap = <<>>
    /\ root = NIL
    /\ size = 0
    /\ noDuplicates \in BOOLEAN
    /\ op = Call("new", NoKey, NoValue, TRUE, NoKey, NoValue, 0)
    /\ hist = NoIteration

\* the trees traversed have up to IterNodes entries
IterNodes == MaxNodes - 1

IterateSet(key, value) ==
    /\ hist = NoIteration
    /\ size < IterNodes \/ (noDuplicates /\ has(This, key))
    /\ Becomes(set(This, noDuplicates, key, value).tree)
    /\ UNCHANGED <<op, hist>>

IterateDelete(key) ==
    /\ hist = NoIteration
    /\ Becomes(delete(This, key).tree)
    /\ UNCHANGED <<op, hist>>

\* how the traversal under way is left when another one starts
Left == IF hist.done THEN "finished" ELSE "abandoned"

\* a second traversal may start once, whatever the first one has reached
MayStart == hist.name = "none" \/ hist.earlier = "none"

\* tree.keys(), tree.values() or tree.entries(): a new generator object, with
\* `node = this._root` and an empty stack once it is first resumed
OpenCall(name) ==
    /\ MayStart
    /\ hist' = Iteration(name, root, <<>>, <<>>, FALSE,
                         IF hist.name = "none" THEN "none" ELSE Left)
    /\ UNCHANGED <<heap, root, size, noDuplicates, op>>

\* iterator.next() on the generator under way
ResumeCall ==
    /\ hist.name \in Generators
    /\ ~hist.done
    /\ \E y \in {yieldNext(heap, hist.node, hist.s)} :
          hist' = [hist EXCEPT !.node = y.node, !.s = y.s, !.done = y.done,
                               !.nodes = IF y.done THEN @ ELSE Append(@, y.yielded)]
    /\ UNCHANGED <<heap, root, size, noDuplicates, op>>

\* forEach(callback) with a callback that stops it at its stop-th invocation
VisitCall(stop) ==
    /\ MayStart
    /\ \E calls \in {forEach(This, stop)} :
          hist' = Iteration("forEach", NIL, <<>>, CallNodes(calls),
                            ~Truthy(stop, calls),
                            IF hist.name = "none" THEN "none" ELSE Left)
    /\ UNCHANGED <<heap, root, size, noDuplicates, op>>

NextIterate ==
    \/ \E key \in Keys, value \in Values : IterateSet(key, value)
    \/ \E key \in Keys : IterateDelete(key)
    \/ \E name \in Generators : OpenCall(name)
    \/ ResumeCall
    \/ \E stop \in 0..size : VisitCall(stop)

SpecIterate == InitIterate /\ [][NextIterate]_vars

\* what a generator yields at a node
Yield(name, n) ==
    IF name = "keys" THEN heap[n].key
    ELSE IF name = "values" THEN heap[n].value
    ELSE <<heap[n].key, heap[n].value>>

\* s is the first nodes of t, in order
IsPrefix(s, t) == Len(s) <= Len(t) /\ s = SubSeq(t, 1, Len(s))

\* C37: keys(), values(), entries() and forEach enumerate the same nodes in the
\* same order; entries() pairs keys() and values() index by index and each has
\* length size; a new traversal starts from the first in-order node whatever
\* traversals were finished or abandoned before it.
C37_SameEnumeration ==
    /\ keysIter(This) = KeysOf(heap, Listing)
    /\ valuesIter(This) = ValuesOf(heap, Listing)
    /\ CallNodes(forEach(This, 0)) = Listing
    /\ Len(keysIter(This)) = size
    /\ Len(valuesIter(This)) = size
    /\ Len(entries(This)) = size
    /\ \A i \in 1..size : entries(This)[i] = <<keysIter(This)[i], valuesIter(This)[i]>>
    /\ hist.name # "none" =>
         /\ IsPrefix(hist.nodes, Listing)
         /\ hist.done => hist.nodes = Listing
         /\ hist.name = "keys" /\ hist.done =>
              keysIter(This) = [i \in 1..size |-> Yield("keys", hist.nodes[i])]
         /\ hist.name = "values" /\ hist.done =>
              valuesIter(This) = [i \in 1..size |-> Yield("values", hist.nodes[i])]
         /\ hist.name = "entries" /\ hist.done =>
              entries(This) = [i \in 1..size |-> Yield("entries", hist.nodes[i])]

\* values() has yielded its second value, from the root of a tree of three
\* entries with two values, after another traversal was abandoned
C37_Witness ==
    /\ size = 3
    /\ hist.name = "values"
    /\ hist.earlier = "abandoned"
    /\ Len(hist.nodes) = 2
    /\ hist.nodes[2] = root
    /\ hist.nodes[1] = heap[root].left
    /\ heap[hist.nodes[1]].value # heap[root].value

\* the root of a heap whose objects are all in the tree
RootOf(h) == CHOOSE n \in DOMAIN h : h[n].parent = NIL

\* the node the last delete found, in the heap it started from
Found == deleteFind(hist.before, RootOf(hist.before), hist.key)

\* the node the last delete went on to unlink, after its copy-ups
Unlinked == deleteCopyRight(deleteCopyLeft(hist.before, Found)).node

\* the last call was a delete that returned true, or a shift or pop whose delete did
Deleted ==
    /\ hist.name \in {"delete", "shift", "pop"}
    /\ hist.before # <<>>
    /\ ~Falsy(hist.key)
    /\ Found # NIL

\* n has no child in h
IsLeaf(h, n) == h[n].left = NIL /\ h[n].right = NIL

\* n is the root of h or the left or right child of its parent
Linked(h, n) ==
    h[n].parent # NIL => (h[h[n].parent].left = n \/ h[h[n].parent].right = n)

\* C34: in every successful delete the node unlinked at the end is a leaf at
\* the moment of unlinking, so that no subtree is dropped; through the whole
\* rebalancing walk it is linked as a child of its parent, and no rotation of
\* the walk gives it a child.
C34_UnlinkedLeaf ==
    Deleted =>
      /\ IsLeaf(deleteCopyRight(deleteCopyLeft(hist.before, Found)).heap, Unlinked)
      /\ \A i \in 1..Len(hist.rounds) :
           /\ IsLeaf(hist.rounds[i].heap, Unlinked)
           /\ Linked(hist.rounds[i].heap, Unlinked)
           /\ hist.rounds[i].heap[Unlinked].parent # NIL
      /\ IsLeaf(hist.after, Unlinked)
      /\ Subtree(hist.after, hist.root) = DOMAIN hist.before \ {Unlinked}
      /\ size = Len(hist.before) - 1

\* a delete of a key held by an inner node: the entry of a leaf was copied up
\* and the walk from the leaf rotated
C34_Witness ==
    /\ Deleted
    /\ hist.name = "delete"
    /\ Found # Unlinked
    /\ \E i \in 1..Len(hist.rounds) : hist.rounds[i].calls # <<>>
    /\ Len(hist.before) = WalkNodes

\* ---- range followed step by step: set and delete build a tree; range is then
\* called on it and hist keeps its arguments, the invocation at which fn
\* returned a truthy value (stop, 0 for never), the nodes fn was invoked on
\* (calls) and the events of the walk (ev)
Ranged(low, high, stop, calls, ev) ==
    [name |-> "range", low |-> low, high |-> high, stop |-> stop,
     calls |-> calls, ev |-> ev]

NoRange == [name |-> "none", low |-> NoKey, high |-> NoKey, stop |-> 0,
            calls |-> <<>>, ev |-> <<>>]

InitRange ==
    /\ heap = <<>>
    /\ root = NIL
    /\ size = 0
    /\ noDuplicates \in BOOLEAN
    /\ op = Call("new", NoKey, NoValue, TRUE, NoKey, NoValue, 0)
    /\ hist = NoRange

RangeSet(key) ==
    /\ hist = NoRange
    /\ SetFits(key)
    /\ Becomes(set(This, noDuplicates, key, Payload).tree)
    /\ UNCHANGED <<op, hist>>

RangeDelete(key) ==
    /\ hist = NoRange
    /\ Becomes(delete(This, key).tree)
    /\ UNCHANGED <<op, hist>>

RangeWalk(low, high, stop) ==
    /\ hist = NoRange
    /\ hist' = Ranged(low, high, stop, range(This, low, high, stop),
                      rangeEvents(heap, root, <<>>, low, high, <<>>, stop, <<>>))
    /\ UNCHANGED <<heap, root, size, noDuplicates, op>>

NextRange ==
    \/ \E key \in Keys : RangeSet(key)
    \/ \E key \in Keys : RangeDelete(key)
    \/ \E low, high \in Keys, stop \in 0..size : RangeWalk(low, high, stop)

SpecRange == InitRange /\ [][NextRange]_vars

\* the nodes of hist.ev of one kind, in order
RECURSIVE EventsOf(_, _)
EventsOf(ev, kind) ==
    IF ev = <<>> THEN <<>>
    ELSE (IF ev[1].kind = kind THEN <<ev[1].node>> ELSE <<>>) \o EventsOf(Tail(ev), kind)

\* the nodes pushed or examined
Touched == {hist.ev[i].node : i \in 1..Len(hist.ev)}

\* the key of n exceeds high, the key of n is below low
ExceedsHigh(n) == compare(heap[n].key, hist.high) > 0

BelowLow(n) == compare(heap[n].key, hist.low) < 0

\* a node below low is examined without fn being invoked on it, and the walk
\* goes on into its right subtree
LowSkipped ==
    \A i \in 1..Len(hist.ev) :
       (hist.ev[i].kind = "pop" /\ BelowLow(hist.ev[i].node)
          /\ ~ExceedsHigh(hist.ev[i].node)) =>
         /\ \A j \in 1..Len(hist.ev) :
               hist.ev[j].node = hist.ev[i].node => hist.ev[j].kind # "call"
         /\ heap[hist.ev[i].node].right # NIL =>
              /\ i < Len(hist.ev)
              /\ hist.ev[i + 1] = Event("push", heap[hist.ev[i].node].right)

Arrays(phase, keys, values, sortedKeys, sortedValues, touched) ==
    [phase |-> phase, keys |-> keys, values |-> values,
     sortedKeys |-> sortedKeys, sortedValues |-> sortedValues, touched |-> touched]

InitSort ==
    /\ heap = <<>>
    /\ root = NIL
    /\ size = 0
    /\ noDuplicates \in BOOLEAN
    /\ op = Call("new", NoKey, NoValue, TRUE, NoKey, NoValue, 0)
    /\ \E n \in 0..MaxLoad :
       \E keys \in [1..n -> Keys], values \in [1..n -> Values] :
          hist = Arrays("input", keys, values, <<>>, <<>>, {})

SortArrays ==
    /\ hist.phase = "input"
    /\ \E s \in {sort(hist.keys, hist.values, 0, Len(hist.keys) - 1)} :
          hist' = Arrays("sorted", hist.keys, hist.values, s.keys, s.values,
                         sortIndexes(hist.keys, hist.values, 0, Len(hist.keys) - 1))
    /\ UNCHANGED <<heap, root, size, noDuplicates, op>>

SortLoad ==
    /\ hist.phase = "input"
    /\ LoadCall(hist.keys, hist.values, TRUE)
    /\ hist' = [hist EXCEPT !.phase = "loaded"]

\* load(keys, values) of the arrays as they are, in order or not
PlainLoad ==
    /\ hist.phase = "input"
    /\ \E r \in {load(This, hist.keys, hist.values, FALSE)} :
       /\ Becomes(r.tree)
       /\ op' = Call("load", NoKey, NoValue, ~r.threw, NoKey, NoValue, 0)
    /\ hist' = [hist EXCEPT !.phase = "plain"]

NextSort == SortArrays \/ SortLoad \/ PlainLoad

SpecSort == InitSort /\ [][NextSort]_vars

\* how many indexes of the two arrays hold the pair (k, v)
PairsIn(keys, values, k, v) ==
    Cardinality({i \in 1..Len(keys) : keys[i] = k /\ values[i] = v})

\* the two pairs of arrays hold the same pairs, each as many times
SamePairs(keys1, values1, keys2, values2) ==
    /\ Len(keys1) = Len(keys2)
    /\ Len(values1) = Len(values2)
    /\ \A k \in Keys, v \in Values :
          PairsIn(keys1, values1, k, v) = PairsIn(keys2, values2, k, v)

\* C31: for equal-length key and value arrays, keys repeated or not, sort
\* leaves the keys non-decreasing and the pairs (keys[i], values[i]) those of
\* the input, each as many times, and reads and writes no index outside
\* [0, n-1]; load with presort then builds a tree whose keys are in order,
\* every value attached to its original key.
C31_SortPairs ==
    /\ hist.phase = "sorted" =>
         /\ IsSorted(hist.sortedKeys, FALSE)
         /\ SamePairs(hist.sortedKeys, hist.sortedValues, hist.keys, hist.values)
         /\ hist.touched \subseteq 0..(Len(hist.keys) - 1)
    /\ hist.phase = "loaded" =>
         /\ op.ok
         /\ size = Len(hist.keys)
         /\ IsSorted(keysIter(This), FALSE)
         /\ NoRepeat(hist.keys) => IsSorted(keysIter(This), TRUE)
         /\ SamePairs(keysIter(This), valuesIter(This), hist.keys, hist.values)
         /\ KeysOf(heap, Listing) = keysIter(This)

\* three keys, one of them twice with two values, in descending order: sort
\* has exchanged entries and read every index
C31_Witness ==
    /\ hist.phase = "sorted"
    /\ Len(hist.keys) = 3
    /\ hist.keys[1] > hist.keys[2]
    /\ hist.keys[2] = hist.keys[3]
    /\ hist.values[2] # hist.values[3]
    /\ hist.values[1] # hist.values[2]
    /\ hist.sortedKeys # hist.keys
    /\ hist.touched = 0..2

\* the keys of every left subtree compare <= and those of every right subtree
\* >= the key of the node above them
WeakOrder ==
    \A n \in Nodes :
      /\ \A k \in KeysIn(heap, heap[n].left) : compare(k, heap[n].key) <= 0
      /\ \A k \in KeysIn(heap, heap[n].right) : compare(k, heap[n].key) >= 0

\* C32: load without presort checks no order: for any key sequence it throws
\* nothing and builds a tree whose in-order traversal yields the keys and the
\* values in the order of the input, of size the number of keys, with matching
\* parent links and exact balance factors; for keys that are not in order the
\* tree violates the order invariant.
C32_PlainLoad ==
    hist.phase = "plain" =>
      /\ op.ok
      /\ keysIter(This) = hist.keys
      /\ valuesIter(This) = hist.values
      /\ KeysOf(heap, Listing) = hist.keys
      /\ size = Len(hist.keys)
      /\ Cardinality(Nodes) = size
      /\ LinksMatched(heap)
      /\ root # NIL => heap[root].parent = NIL
      /\ \A n \in Nodes : Exact(heap, n)
      /\ isBalanced(heap, root)
      /\ ~IsSorted(hist.keys, FALSE) => ~WeakOrder

\* three keys loaded as they came, the largest first: the root's left child
\* holds a larger key than the root
C32_Witness ==
    /\ hist.phase = "plain"
    /\ size = 3
    /\ hist.keys[1] > hist.keys[2]
    /\ hist.keys[2] < hist.keys[3]
    /\ hist.values[1] # hist.values[2]
    /\ heap[root].key = hist.keys[2]
    /\ heap[heap[root].left].key > heap[root].key

====
